---- MODULE Spec2Model ----
(***************************************************************************)
(* Model of the compute Renderer (src/computeRenderer/Renderer.cpp): the   *)
(* host thread that calls start/stop/togglePause/stepForward/stepBackward/ *)
(* isPaused, the detached render threads running renderLoop(), the four    *)
(* std::atomic<bool> flags they share, the playback index, the EGL         *)
(* display/surface/context and the GL objects.  Every atomic load or store *)
(* of a shared flag is one step of the thread that performs it.            *)
(***************************************************************************)
EXTENDS Integers, Sequences, FiniteSets, TLC

\* ---- bounds ----
MaxImages == 2
MaxStarts == 1
MaxCalls == 2

MaxSample == 2
MaxRecords == 121
MaxBuilds == 2

MaxDim == 33
MaxTime == 70
MaxFiles == 2
MaxCallers == 3
MaxToggles == 6
MaxFrames == 2

\* ---- program constants ----
statsResetInterval == 60
frameTime == 33
EGL_NO_DISPLAY == 0
EGL_NO_CONTEXT == 0
EGL_NO_SURFACE == 0

VARIABLES
    imageNames,            \* std::vector<std::string> imageNames (names are 1..N)
    badImage,              \* name of the image getImage()/isValid() rejects, 0 if none
    currentImageIndex,     \* size_t currentImageIndex
    paused,                \* std::atomic<bool> paused
    shouldStepForward,     \* std::atomic<bool> shouldStepForward
    shouldStepBackward,    \* std::atomic<bool> shouldStepBackward
    running,               \* std::atomic<bool> running
    display,               \* EGLDisplay display (0 = EGL_NO_DISPLAY)
    context,               \* EGLContext context (0 = EGL_NO_CONTEXT, g = handle made by start #g)
    surface,               \* EGLSurface surface (0 = EGL_NO_SURFACE, g = handle made by start #g)
    glObjects,             \* computeShaderProgram, renderShaderProgram, inputTexture, outputTexture
    inputImage,            \* content of the input texture: name of the uploaded image, 0 if none
    outputSize,            \* storage of the output texture: "none", "window" or "image"
    eglInitialized,        \* EGL: the display is initialized
    ctxState,              \* EGL: per context handle "none", "live" or "destroyed"
    surfState,             \* EGL: per surface handle "none", "live" or "destroyed"
    current,               \* EGL: context current on each thread (0 = none)
    hpc,                   \* host thread: position
    hTmp,                  \* host thread: value of paused loaded by togglePause()
    hLast,                 \* host thread: outcome of the call that returned last
    starts,                \* number of start() calls that went past the running check
    rpc,                   \* render thread g: position in renderLoop()
    observe,               \* history: which history is recorded, "life", "count" or "trip" (fixed by Init)
    lateGpuCall,           \* history: a render thread issued a GPU call on a destroyed context/surface
    lastMove,              \* history: kind of the most recent index move
    moveFrom,              \* history: index before the most recent move (before the step pair for "fwdback")
    fwdCalls,              \* history: accepted stepForward() calls while only forward steps moved the index
    fwdMoves,              \* history: consumed forward steps while only forward steps moved the index
    onlyFwd,               \* history: no automatic advance and no backward step has moved the index
    unservedF,             \* history: a forward request was accepted after the last forward move
    unservedB,             \* history: a backward request was accepted after the last backward move
    toggleCalls,           \* history: togglePause() calls completed in the current pair (0, 1 or 2)
    pausedBefore,          \* history: paused when the first call of the current pair was made
    variant,               \* which renderer: "compute" (computeRenderer/) or "render" (render/), fixed by Init
    iterMoves,             \* history: index moves render thread g made in its current loop iteration
    unshown,               \* history: a step moved the index and no frame was presented since
    unpresented,           \* history: the index the last automatic advance selected, -1 once it was presented
    deletes,               \* history: cleanupGL() runs with GL delete calls made by render thread g
    doubleDestroy,         \* history: eglDestroyContext/eglDestroySurface was called on a handle not live
    frameCount,            \* int frameCount
    totalRenderTime,       \* double totalRenderTime, in whole milliseconds
    report,                \* statistics block printed by the last recorded frame, NoReport if it printed none
    recorded,              \* history: frames recorded so far
    window,                \* history: for each sample value, how often it was recorded in the current window
    glHeap,                \* GL: live shader and program objects, attachments, deletion flags
    bpc,                   \* program building: position in the create...Program function
    bfun,                  \* program building: the function being run
    bloc,                  \* program building: its local handles and the programs live at entry
    bret,                  \* program building: the value returned
    builds,                \* program building: calls made so far
    imageData,             \* ImageLoader: for each name the ImageData that getImage() returns, found = FALSE for nullptr
    inputDims,             \* GL: width and height of the input texture's storage, <<0, 0>> if none
    outputDims,            \* GL: width and height of the output texture's storage, <<0, 0>> if none
    clock,                 \* std::chrono::steady_clock, in whole milliseconds since the construction
    lastFrameTimePoint,    \* std::chrono::steady_clock::time_point lastFrameTimePoint
    currentTime,           \* render thread g: currentTime of its loop iteration
    elapsedTime,           \* render thread g: elapsedTime of its loop iteration
    advanceTimes,          \* history: the currentTime of each iteration that took the automatic advance
    iterCalls,             \* history: updateTexture() calls render thread g made in its current loop iteration
    iterUploads,           \* history: of these, the calls that uploaded the image
    glError,               \* the last checkGLError() found an error and logged it
    texWidth,              \* processImageWithCompute(): GLint width read back from the input texture
    texHeight,             \* processImageWithCompute(): GLint height read back from the input texture
    numGroupsX,            \* processImageWithCompute(): GLuint numGroupsX, 0 before the dispatch
    numGroupsY,            \* processImageWithCompute(): GLuint numGroupsY, 0 before the dispatch
    directory,             \* the regular files of the directory the images are loaded from
    loaderImages,          \* ImageLoader::images, the std::map in its iteration order
    lastCall,              \* the ImageLoader member function called last
    lastArg,               \* its argument: the name of getImage(), options.maxImages of the load
    returned,              \* the value it returned; << >> for nullptr
    stored,                \* history: base names of the files stored since the last clearImages()
    decodeFailed,          \* history: a file failed to decode since the last clearImages()
    tpc,                   \* thread c calling togglePause(): its position in the call
    tTmp,                  \* thread c calling togglePause(): the value of paused it loaded
    toggled,               \* history: togglePause() calls that have returned
    statTmp                \* render thread g: the value of frameCount or totalRenderTime it loaded

vars == <<imageNames, badImage, currentImageIndex, paused, shouldStepForward,
          shouldStepBackward, running, display, context, surface, glObjects,
          inputImage, outputSize, eglInitialized, ctxState, surfState, current,
          hpc, hTmp, hLast, starts, rpc, observe, lateGpuCall,
          lastMove, moveFrom, fwdCalls, fwdMoves, onlyFwd, unservedF, unservedB,
          toggleCalls, pausedBefore, variant, iterMoves, unshown, unpresented, deletes,
          doubleDestroy,
          frameCount, totalRenderTime, report, recorded, window,
          glHeap, bpc, bfun, bloc, bret, builds,
          imageData, inputDims, outputDims, clock, lastFrameTimePoint, currentTime, elapsedTime,
          advanceTimes,
          iterCalls, iterUploads, glError, texWidth, texHeight, numGroupsX, numGroupsY,
          directory, loaderImages, lastCall, lastArg, returned, stored, decodeFailed,
          tpc, tTmp, toggled, statTmp>>

playback == <<currentImageIndex, paused, shouldStepForward, shouldStepBackward, running>>
egl      == <<display, context, surface, eglInitialized, ctxState, surfState, current>>
textures == <<inputImage, outputSize, inputDims, outputDims>>
gl       == <<glObjects, textures>>
images   == <<imageNames, badImage, observe, variant, imageData>>
host     == <<hpc, hTmp, hLast, starts>>
render   == <<rpc>>
moves    == <<lastMove, moveFrom, fwdMoves, onlyFwd>>
toggles  == <<toggleCalls, pausedBefore>>
past     == <<lateGpuCall, lastMove, moveFrom, fwdCalls, fwdMoves, onlyFwd, unservedF, unservedB,
              toggleCalls, pausedBefore>>
frames   == <<iterMoves, unshown, unpresented>>
teardown == <<deletes, doubleDestroy>>
history  == <<past, frames, teardown>>
stats    == <<frameCount, totalRenderTime, report, recorded, window, statTmp>>
build    == <<glHeap, bpc, bfun, bloc, bret, builds>>
timing   == <<clock, lastFrameTimePoint, currentTime, elapsedTime, advanceTimes>>
uploads  == <<iterCalls, iterUploads, glError>>
dispatch == <<texWidth, texHeight, numGroupsX, numGroupsY>>
loader   == <<directory, loaderImages, lastCall, lastArg, returned, stored, decodeFailed>>
callers  == <<tpc, tTmp, toggled>>
side     == <<stats, build, dispatch, loader, callers>>
units    == <<side, timing, uploads>>

Gens    == 1..(MaxStarts + 1)
Threads == {0} \cup Gens          \* 0 is the host thread, g the render thread spawned by start #g
Samples == 1..MaxSample           \* render times of one frame, in whole milliseconds
NoReport == [frameCount |-> 0, totalRenderTime |-> 0, averageOver |-> 0]
EmptyHeap == [shaders |-> {}, programs |-> {}, attached |-> {}, flagged |-> {}, names |-> 0]
NoLocals == [first |-> 0, second |-> 0, program |-> 0, before |-> {}]
NoGL    == [computeShaderProgram |-> 0, renderShaderProgram |-> 0,
            inputTexture |-> 0, outputTexture |-> 0]

\* ---- ImageLoader.h: ImageData ----

\* the ImageData of a decoded file: dataSize = width * height * channels bytes
Decoded(w, h, c) == [found |-> TRUE, width |-> w, height |-> h, channels |-> c, dataSize |-> w * h * c]

\* the image stored under name i when nothing is wrong with it: the dimensions
\* and the channel count (4 or 3) vary with the name
GoodImage(i) == Decoded((i + 1) \div 2, 2, IF i % 2 = 1 THEN 4 ELSE 3)

\* what getImage() gives for a name that is not as the renderer expects: no
\* entry, no pixel data, a zero dimension, or a channel count other than 3 and 4
OddImage(kind) ==
    CASE kind = "missing"    -> [found |-> FALSE, width |-> 0, height |-> 0, channels |-> 0, dataSize |-> 0]
      [] kind = "empty"      -> [found |-> TRUE, width |-> 2, height |-> 2, channels |-> 4, dataSize |-> 0]
      [] kind = "zeroWidth"  -> Decoded(0, 2, 4)
      [] kind = "zeroHeight" -> Decoded(2, 0, 4)
      [] kind = "channels1"  -> Decoded(2, 1, 1)
      [] OTHER               -> Decoded(1, 1, 2)

\* the kinds a specification enumerates for the image named badImage
OddKinds(o) ==
    IF o = "upload"
    THEN {"missing", "empty", "zeroWidth", "zeroHeight", "channels1", "channels2"}
    ELSE {"missing"}

ImageSets(o, names, bad) ==
    {[i \in 1..Len(names) |-> IF i = bad THEN OddImage(kind) ELSE GoodImage(i)] : kind \in OddKinds(o)}

\* ImageData::isValid()
isValid(img) == img.dataSize > 0 /\ img.width > 0 /\ img.height > 0

\* the window size the renderer was constructed with (fields width, height)
WindowDims == <<MaxDim + 1, MaxDim + 1>>

\* content of a texture that was filled from beyond the end of the pixel buffer
Garbage == -1

\* ---- the files an ImageLoader reads ----

\* a string is the sequence of the codes of its characters

\* the base names of the files in the directories: "1", "01", "1a", "a", "2", "10"
Names == {<<49>>, <<48, 49>>, <<49, 97>>, <<97>>, <<50>>, <<49, 48>>}

\* the directories: up to MaxFiles regular files with different base names; an
\* entry is a PNG file that decodes, a PNG file stbi_load() fails on, or a file
\* with another extension
Directories ==
    {d \in SUBSET [stem : Names, kind : {"png", "broken", "other"}] :
        /\ Cardinality(d) <= MaxFiles
        /\ \A f, g \in d : f.stem = g.stem => f = g}

\* ---- Renderer::Renderer ----
Constructed(o, v) ==
    /\ imageNames \in {[i \in 1..n |-> i] : n \in 0..MaxImages}
    /\ badImage \in {b \in {0, 1} : b <= Len(imageNames)}
    /\ currentImageIndex = 0
    /\ paused = FALSE
    /\ shouldStepForward = FALSE
    /\ shouldStepBackward = FALSE
    /\ running = FALSE
    /\ display = EGL_NO_DISPLAY
    /\ context = EGL_NO_CONTEXT
    /\ surface = EGL_NO_SURFACE
    /\ glObjects = NoGL
    /\ inputImage = 0
    /\ outputSize = "none"
    /\ eglInitialized = FALSE
    /\ ctxState = [g \in Gens |-> "none"]
    /\ surfState = [g \in Gens |-> "none"]
    /\ current = [t \in Threads |-> 0]
    /\ hpc = "idle"
    /\ hTmp = FALSE
    /\ hLast = "none"
    /\ starts = 0
    /\ rpc = [g \in Gens |-> "none"]
    /\ observe = o
    /\ lateGpuCall = FALSE
    /\ lastMove = "none"
    /\ moveFrom = 0
    /\ fwdCalls = 0
    /\ fwdMoves = 0
    /\ onlyFwd = TRUE
    /\ unservedF = FALSE
    /\ unservedB = FALSE
    /\ toggleCalls = 0
    /\ pausedBefore = FALSE
    /\ variant = v
    /\ iterMoves = [g \in Gens |-> 0]
    /\ unshown = FALSE
    /\ unpresented = -1
    /\ deletes = [g \in Gens |-> 0]
    /\ doubleDestroy = FALSE
    /\ frameCount = 0
    /\ totalRenderTime = 0
    /\ report = NoReport
    /\ recorded = 0
    /\ window = [x \in Samples |-> 0]
    /\ glHeap = EmptyHeap
    /\ bpc = "idle"
    /\ bfun = "none"
    /\ bloc = NoLocals
    /\ bret = 0
    /\ builds = 0
    /\ imageData \in ImageSets(o, imageNames, badImage)
    /\ inputDims = <<0, 0>>
    /\ outputDims = <<0, 0>>
    /\ clock = 0
    /\ lastFrameTimePoint = 0
    /\ currentTime = [g \in Gens |-> 0]
    /\ elapsedTime = [g \in Gens |-> 0]
    /\ advanceTimes = << >>
    /\ iterCalls = [g \in Gens |-> 0]
    /\ iterUploads = [g \in Gens |-> 0]
    /\ glError = FALSE
    /\ texWidth = 0
    /\ texHeight = 0
    /\ numGroupsX = 0
    /\ numGroupsY = 0
    /\ directory \in IF o = "loader" THEN Directories ELSE {{}}
    /\ loaderImages = << >>
    /\ lastCall = "none"
    /\ lastArg = << >>
    /\ returned = << >>
    /\ stored = {}
    /\ decodeFailed = FALSE
    /\ tpc = [c \in 1..MaxCallers |-> "idle"]
    /\ tTmp = [c \in 1..MaxCallers |-> FALSE]
    /\ toggled = 0
    /\ statTmp = [g \in Gens |-> 0]

Init == Constructed("life", "compute")

\* the same program with its forward steps counted
InitCount == Constructed("count", "compute")

\* the same program with its last step pair recorded
InitTrip == Constructed("trip", "compute")

\* the same program with its togglePause() calls recorded in pairs
InitToggle == Constructed("toggle", "compute")

\* ---- EGL and GL helpers ----

\* eglMakeCurrent(display, surface, surface, context) can succeed for thread t
CanBind(t) ==
    /\ display # EGL_NO_DISPLAY
    /\ eglInitialized
    /\ context # EGL_NO_CONTEXT
    /\ surface # EGL_NO_SURFACE
    /\ ctxState[context] = "live"
    /\ surfState[surface] = "live"
    /\ \A u \in Threads \ {t} : current[u] # context

\* mutant: the initializing thread never releases the context
UnbindRenderOnly(cur, t) == IF t = 0 THEN cur ELSE [cur EXCEPT ![t] = 0]

\* eglMakeCurrent(display, EGL_NO_SURFACE, EGL_NO_SURFACE, EGL_NO_CONTEXT) by thread t
Unbind(cur, t) == [cur EXCEPT ![t] = 0]

\* eglTerminate(display): every resource of the display is released
Terminated(st) == [g \in Gens |-> IF st[g] = "live" THEN "destroyed" ELSE st[g]]

\* eglDestroyContext/eglDestroySurface on handle h whose state is st[h]: the
\* call is a second destruction when the handle is not live any more
Destroyed(st, h) == [st EXCEPT ![h] = "destroyed"]

\* thread t issues a GL call or eglSwapBuffers; the call is late when t has no
\* live context and surface current
GpuCall(t) ==
    lateGpuCall' = \/ lateGpuCall
                   \/ /\ observe = "life"
                      /\ \/ current[t] = 0
                         \/ ctxState[current[t]] # "live"
                         \/ surfState[current[t]] # "live"

\* checkGLError() after a group of GL calls: glGetError() gives an error or
\* none, an error is written to std::cerr and nothing else is done
checkGLError == glError' \in IF observe = "upload" THEN BOOLEAN ELSE {glError}

\* ---- Renderer::updateTexture, nextFrame, previousFrame ----

\* the image at index idx is found by getImage() and passes isValid()
ImageValid(idx) ==
    /\ idx + 1 \in DOMAIN imageNames
    /\ imageData[imageNames[idx + 1]].found
    /\ isValid(imageData[imageNames[idx + 1]])

\* the switch on imageData->channels of the compute renderer: GL_LUMINANCE,
\* GL_RGB, GL_RGBA, or the default branch that returns
Supported(img) == img.channels \in {1, 3, 4}

\* mutant: an image of the size the texture already has is not uploaded again
UploadsOnResize(idx) ==
    /\ Len(imageNames) # 0
    /\ ImageValid(idx)
    /\ variant = "compute" => Supported(imageData[imageNames[idx + 1]])
    /\ inputDims # <<imageData[imageNames[idx + 1]].width, imageData[imageNames[idx + 1]].height>>

\* updateTexture() goes as far as glTexImage2D for the image at index idx
Uploads(idx) ==
    /\ Len(imageNames) # 0
    /\ ImageValid(idx)
    /\ variant = "compute" => Supported(imageData[imageNames[idx + 1]])

updateTexture(idx) ==
    IF ~Uploads(idx)
    THEN UNCHANGED textures
    ELSE LET img == imageData[imageNames[idx + 1]]
         IN  IF variant = "compute"
             THEN /\ inputImage' = imageNames[idx + 1]
                  /\ inputDims' = <<img.width, img.height>>
                  /\ outputSize' = "image"
                  /\ outputDims' = <<img.width, img.height>>
             \* format = (channels == 4) ? GL_RGBA : GL_RGB: glTexImage2D reads 4 or
             \* 3 bytes for each pixel, whatever the size of the pixel buffer
             ELSE /\ inputImage' \in IF img.dataSize >= img.width * img.height *
                                                        (IF img.channels = 4 THEN 4 ELSE 3)
                                     THEN {imageNames[idx + 1]}
                                     ELSE {imageNames[idx + 1], Garbage}
                  /\ inputDims' = <<img.width, img.height>>
                  /\ UNCHANGED <<outputSize, outputDims>>

\* mutant: the wrap to 0 is missing, the index stays on the last image
NextIndexClamped(i, n) == IF i + 1 < n THEN i + 1 ELSE i

NextIndex(i, n) == (i + 1) % n

\* mutant: the wrap to N-1 is missing, the index stays on the first image
PreviousIndexClamped(i, n) == IF i = 0 THEN 0 ELSE i - 1

\* mutant: the test for 0 is missing, the index is decremented below 0
PreviousIndexUnguarded(i, n) == i - 1

PreviousIndex(i, n) == IF i = 0 THEN n - 1 ELSE i - 1

\* bookkeeping of an index move of the given kind ("fwd", "back" or "auto")
RecordMove(kind) ==
    /\ IF observe = "trip"
       THEN /\ lastMove' = CASE kind = "fwd" -> "fwd"
                             [] kind = "back" /\ lastMove = "fwd" -> "fwdback"
                             [] OTHER -> "none"
            /\ moveFrom' = CASE kind = "fwd" -> currentImageIndex
                             [] kind = "back" /\ lastMove = "fwd" -> moveFrom
                             [] OTHER -> 0
       ELSE UNCHANGED <<lastMove, moveFrom>>
    /\ IF observe = "count"
       THEN /\ onlyFwd' = (onlyFwd /\ kind = "fwd")
            /\ fwdMoves' = IF onlyFwd /\ kind = "fwd" THEN fwdMoves + 1 ELSE 0
            /\ fwdCalls' = IF onlyFwd /\ kind = "fwd" THEN fwdCalls ELSE 0
       ELSE UNCHANGED <<onlyFwd, fwdMoves, fwdCalls>>

\* bookkeeping of a request: accepted (TRUE) or served by a move (FALSE)
Request(unserved, accepted) == IF observe = "life" THEN accepted ELSE unserved

nextFrame(kind) ==
    IF Len(imageNames) = 0
    THEN UNCHANGED <<currentImageIndex, textures, lastMove, moveFrom,
                     onlyFwd, fwdMoves, fwdCalls>>
    ELSE /\ currentImageIndex' = NextIndex(currentImageIndex, Len(imageNames))
         /\ updateTexture(currentImageIndex')
         /\ RecordMove(kind)

\* mutant: the test for an empty image list is missing
previousFrameUnguarded ==
    /\ currentImageIndex' = PreviousIndex(currentImageIndex, Len(imageNames))
    /\ updateTexture(currentImageIndex')
    /\ RecordMove("back")

previousFrame ==
    IF Len(imageNames) = 0
    THEN UNCHANGED <<currentImageIndex, textures, lastMove, moveFrom,
                     onlyFwd, fwdMoves, fwdCalls>>
    ELSE /\ currentImageIndex' = PreviousIndex(currentImageIndex, Len(imageNames))
         /\ updateTexture(currentImageIndex')
         /\ RecordMove("back")

\* ---- host thread: playback control ----

\* togglePause(), the load of paused in "paused = !paused"
TogglePauseLoad ==
    /\ hpc = "idle"
    /\ hTmp' = paused
    /\ hpc' = "tp_store"
    /\ hLast' = "none"
    /\ toggleCalls' = IF toggleCalls = 2 THEN 0 ELSE toggleCalls
    /\ pausedBefore' = IF toggleCalls = 1 \/ observe # "toggle" THEN pausedBefore ELSE paused
    /\ UNCHANGED <<playback, egl, gl, images, units, starts, render, lateGpuCall, moves, fwdCalls,
                   unservedF, unservedB, frames, teardown>>

\* mutant: togglePause() always pauses
TogglePauseStoreTrue ==
    /\ hpc = "tp_store"
    /\ paused' = TRUE
    /\ hTmp' = FALSE
    /\ hpc' = "idle"
    /\ hLast' = "none"
    /\ toggleCalls' = IF observe = "toggle" THEN toggleCalls + 1 ELSE toggleCalls
    /\ unpresented' = IF paused' THEN -1 ELSE unpresented
    /\ UNCHANGED <<currentImageIndex, shouldStepForward, shouldStepBackward, running,
                   egl, gl, images, units, starts, render, lateGpuCall, moves, fwdCalls,
                   unservedF, unservedB, pausedBefore, iterMoves, unshown, teardown>>

\* togglePause(), the store of the negated value
TogglePauseStore ==
    /\ hpc = "tp_store"
    /\ paused' = ~hTmp
    /\ hTmp' = FALSE
    /\ hpc' = "idle"
    /\ hLast' = "none"
    /\ toggleCalls' = IF observe = "toggle" THEN toggleCalls + 1 ELSE toggleCalls
    /\ unpresented' = IF paused' THEN -1 ELSE unpresented
    /\ UNCHANGED <<currentImageIndex, shouldStepForward, shouldStepBackward, running,
                   egl, gl, images, units, starts, render, lateGpuCall, moves, fwdCalls,
                   unservedF, unservedB, pausedBefore, iterMoves, unshown, teardown>>

\* mutant: stepForward() does not test paused
StepForwardCheckAlways ==
    /\ hpc = "idle"
    /\ (observe = "count" /\ onlyFwd) => fwdCalls < MaxCalls
    /\ hpc' = "sf_set" /\ hLast' = "none"
    /\ UNCHANGED <<playback, egl, gl, images, units, hTmp, starts, render, history>>

\* stepForward(), the test of paused
StepForwardCheck ==
    /\ hpc = "idle"
    /\ (observe = "count" /\ onlyFwd) => fwdCalls < MaxCalls
    /\ IF paused
       THEN hpc' = "sf_set" /\ hLast' = "none"
       ELSE hpc' = "idle" /\ hLast' = "stepDropped"
    /\ UNCHANGED <<playback, egl, gl, images, units, hTmp, starts, render, history>>

\* stepForward(), shouldStepForward = true
StepForwardSet ==
    /\ hpc = "sf_set"
    /\ shouldStepForward' = TRUE
    /\ unservedF' = Request(unservedF, TRUE)
    /\ fwdCalls' = IF observe = "count" /\ onlyFwd THEN fwdCalls + 1 ELSE fwdCalls
    /\ hpc' = "idle"
    /\ hLast' = "none"
    /\ UNCHANGED <<currentImageIndex, paused, shouldStepBackward, running, egl, gl,
                   images, units, hTmp, starts, render, lateGpuCall, moves, unservedB, toggles,
                   frames, teardown>>

\* stepBackward(), the test of paused
StepBackwardCheck ==
    /\ hpc = "idle"
    /\ IF paused
       THEN hpc' = "sb_set" /\ hLast' = "none"
       ELSE hpc' = "idle" /\ hLast' = "stepDropped"
    /\ UNCHANGED <<playback, egl, gl, images, units, hTmp, starts, render, history>>

\* stepBackward(), shouldStepBackward = true
StepBackwardSet ==
    /\ hpc = "sb_set"
    /\ shouldStepBackward' = TRUE
    /\ unservedB' = Request(unservedB, TRUE)
    /\ hpc' = "idle"
    /\ hLast' = "none"
    /\ UNCHANGED <<currentImageIndex, paused, shouldStepForward, running, egl, gl,
                   images, units, hTmp, starts, render, lateGpuCall, moves,
                   fwdCalls, unservedF, toggles, frames, teardown>>

\* isPaused()
IsPaused ==
    /\ hpc = "idle"
    /\ hLast' = IF paused THEN "isPausedTrue" ELSE "isPausedFalse"
    /\ UNCHANGED <<playback, egl, gl, images, units, hpc, hTmp, starts, render, history>>

\* ---- host thread: start() ----

\* the start() calls a specification lets past the running check: one more
\* where a restart is looked at
StartLimit == IF observe \in {"restart", "clock", "race"} THEN MaxStarts + 1 ELSE MaxStarts

\* mutant: start() does not test running
StartCheckAlways ==
    /\ hpc = "idle"
    /\ starts < MaxStarts + 1
    /\ hpc' = "st_egl" /\ hLast' = "none" /\ starts' = starts + 1
    /\ UNCHANGED <<playback, egl, gl, images, units, hTmp, render, history>>

\* start(), "if (running) return true"
StartCheck ==
    /\ hpc = "idle"
    /\ running \/ starts < StartLimit
    /\ IF running
       THEN hpc' = "idle" /\ hLast' = "startedAlready" /\ starts' = starts
       ELSE hpc' = "st_egl" /\ hLast' = "none" /\ starts' = starts + 1
    /\ UNCHANGED <<playback, egl, gl, images, units, hTmp, render, history>>

\* start(), eglGetDisplay .. eglCreateContext; each call may fail
StartEGL ==
    /\ hpc = "st_egl"
    /\ \E outcome \in {"noDisplay", "initFail", "configFail", "surfaceFail", "contextFail", "ok"} :
         /\ display' = IF outcome = "noDisplay" THEN EGL_NO_DISPLAY ELSE 1
         /\ eglInitialized' = CASE outcome \in {"noDisplay", "initFail"} -> eglInitialized
                                [] outcome = "ok" -> TRUE
                                [] OTHER -> FALSE
         /\ surface' = CASE outcome \in {"noDisplay", "initFail", "configFail"} -> surface
                         [] outcome = "surfaceFail" -> EGL_NO_SURFACE
                         [] OTHER -> starts
         /\ context' = CASE outcome = "contextFail" -> EGL_NO_CONTEXT
                         [] outcome = "ok" -> starts
                         [] OTHER -> context
         /\ surfState' = CASE outcome \in {"noDisplay", "initFail"} -> surfState
                           [] outcome \in {"configFail", "surfaceFail"} -> Terminated(surfState)
                           [] outcome = "contextFail" ->
                                [Terminated(surfState) EXCEPT ![starts] = "destroyed"]
                           [] OTHER -> [surfState EXCEPT ![starts] = "live"]
         /\ ctxState' = CASE outcome \in {"noDisplay", "initFail"} -> ctxState
                          [] outcome = "ok" -> [ctxState EXCEPT ![starts] = "live"]
                          [] OTHER -> Terminated(ctxState)
         /\ IF outcome = "ok"
            THEN hpc' = "ig_bind" /\ hLast' = "none"
            ELSE hpc' = "idle" /\ hLast' = "startFalse"
    /\ UNCHANGED <<playback, gl, images, units, current, hTmp, starts, render, history>>

\* initializeGL(), eglMakeCurrent on the initializing thread
InitGLBind ==
    /\ hpc = "ig_bind"
    /\ \E ok \in {b \in BOOLEAN : b => CanBind(0)} :
         IF ok
         THEN /\ current' = [current EXCEPT ![0] = context]
              /\ hpc' = "ig_build"
         ELSE /\ current' = current
              /\ hpc' = "st_fail"
    /\ UNCHANGED <<playback, display, context, surface, eglInitialized, ctxState, surfState,
                   gl, images, units, hTmp, hLast, starts, render, history>>

\* the ways the object creation of initializeGL() can end; the texture renderer
\* (render/Renderer.cpp:248-262) has one program, kept in renderShaderProgram
\* here, and one texture, kept in inputTexture
BuildOutcomes ==
    IF variant = "compute" THEN {"computeFail", "renderFail", "ok"} ELSE {"renderFail", "ok"}

\* initializeGL(), the two programs and the two textures
InitGLBuild ==
    /\ hpc = "ig_build"
    /\ \E outcome \in BuildOutcomes :
         /\ glObjects' =
              CASE outcome = "computeFail" -> [glObjects EXCEPT !.computeShaderProgram = 0]
                [] outcome = "renderFail" /\ variant = "compute" ->
                     [glObjects EXCEPT !.computeShaderProgram = 1, !.renderShaderProgram = 0]
                [] outcome = "renderFail" /\ variant = "render" ->
                     [glObjects EXCEPT !.renderShaderProgram = 0]
                [] outcome = "ok" /\ variant = "compute" ->
                     [computeShaderProgram |-> 1, renderShaderProgram |-> 1,
                      inputTexture |-> 1, outputTexture |-> 1]
                [] OTHER -> [glObjects EXCEPT !.renderShaderProgram = 1, !.inputTexture = 1]
         /\ inputImage' = IF outcome = "ok" THEN 0 ELSE inputImage
         /\ outputSize' = IF outcome = "ok" /\ variant = "compute" THEN "window" ELSE outputSize
         /\ inputDims' = IF outcome = "ok" THEN <<0, 0>> ELSE inputDims
         /\ outputDims' = CASE outcome = "ok" /\ variant = "compute" -> WindowDims
                             [] outcome = "ok" -> <<0, 0>>
                             [] OTHER -> outputDims
         /\ IF outcome = "ok" THEN checkGLError ELSE glError' = glError
         /\ hpc' = IF outcome = "ok" THEN "ig_unbind" ELSE "st_fail"
    /\ UNCHANGED <<playback, egl, images, side, timing, iterCalls, iterUploads, hTmp, hLast,
                   starts, render, history>>

\* initializeGL(), the unbind before "return true"
InitGLUnbind ==
    /\ hpc = "ig_unbind"
    /\ current' = Unbind(current, 0)
    /\ hpc' = "st_unbind"
    /\ UNCHANGED <<playback, display, context, surface, eglInitialized, ctxState, surfState,
                   gl, images, units, hTmp, hLast, starts, render, history>>

\* mutant: the unwinding forgets eglDestroyContext and eglTerminate
StartFailKeepsContext ==
    /\ hpc = "st_fail"
    /\ current' = Unbind(current, 0)
    /\ surfState' = Destroyed(surfState, surface)
    /\ doubleDestroy' = (doubleDestroy \/ surfState[surface] # "live")
    /\ hpc' = "idle"
    /\ hLast' = "startFalse"
    /\ UNCHANGED <<playback, display, context, surface, eglInitialized, ctxState, gl, images, units,
                   hTmp, starts, render, past, frames, deletes>>

\* start(), the unwinding after initializeGL() returned false
StartFail ==
    /\ hpc = "st_fail"
    /\ current' = Unbind(current, 0)
    /\ ctxState' = Terminated(Destroyed(ctxState, context))
    /\ surfState' = Terminated(Destroyed(surfState, surface))
    /\ doubleDestroy' = (doubleDestroy \/ ctxState[context] # "live" \/ surfState[surface] # "live")
    /\ eglInitialized' = FALSE
    /\ hpc' = "idle"
    /\ hLast' = "startFalse"
    /\ UNCHANGED <<playback, display, context, surface, gl, images, units, hTmp, starts, render,
                   past, frames, deletes>>

\* start(), eglMakeCurrent(.., EGL_NO_CONTEXT) and eglReleaseThread()
StartUnbind ==
    /\ hpc = "st_unbind"
    /\ current' = Unbind(current, 0)
    /\ hpc' = "st_spawn"
    /\ UNCHANGED <<playback, display, context, surface, eglInitialized, ctxState, surfState,
                   gl, images, units, hTmp, hLast, starts, render, history>>

\* start(), running = true and the detached render thread
StartSpawn ==
    /\ hpc = "st_spawn"
    /\ running' = TRUE
    /\ rpc' = [rpc EXCEPT ![starts] = "bind"]
    /\ hpc' = "idle"
    /\ hLast' = "startTrue"
    /\ UNCHANGED <<currentImageIndex, paused, shouldStepForward, shouldStepBackward, egl, gl,
                   images, units, hTmp, starts, history>>

\* ---- host thread: stop() ----

\* mutant: stop() does not test running
StopCheckAlways ==
    /\ hpc = "idle"
    /\ hpc' = "sp_clear" /\ hLast' = "none"
    /\ UNCHANGED <<playback, egl, gl, images, units, hTmp, starts, render, history>>

\* stop(), "if (!running) return"; ~Renderer() is a call of stop()
StopCheck ==
    /\ hpc = "idle"
    /\ IF running
       THEN hpc' = "sp_clear" /\ hLast' = "none"
       ELSE hpc' = "idle" /\ hLast' = "stopped"
    /\ UNCHANGED <<playback, egl, gl, images, units, hTmp, starts, render, history>>

\* mutant: stop() also rewinds the playback index
StopClearRewind ==
    /\ hpc = "sp_clear"
    /\ running' = FALSE
    /\ currentImageIndex' = 0
    /\ hpc' = "sp_destroy"
    /\ UNCHANGED <<paused, shouldStepForward, shouldStepBackward, egl, gl,
                   images, units, hTmp, hLast, starts, render, history>>

\* stop(), running = false and the 100 ms sleep
StopClear ==
    /\ hpc = "sp_clear"
    /\ running' = FALSE
    /\ hpc' = "sp_destroy"
    /\ UNCHANGED <<currentImageIndex, paused, shouldStepForward, shouldStepBackward, egl, gl,
                   images, units, hTmp, hLast, starts, render, history>>

\* stop(), eglDestroyContext, eglDestroySurface, eglTerminate
StopDestroy ==
    /\ hpc = "sp_destroy"
    /\ IF display # EGL_NO_DISPLAY
       THEN /\ ctxState' = Terminated(IF context # EGL_NO_CONTEXT
                                      THEN Destroyed(ctxState, context)
                                      ELSE ctxState)
            /\ surfState' = Terminated(IF surface # EGL_NO_SURFACE
                                       THEN Destroyed(surfState, surface)
                                       ELSE surfState)
            /\ doubleDestroy' = \/ doubleDestroy
                                 \/ (context # EGL_NO_CONTEXT /\ ctxState[context] # "live")
                                 \/ (surface # EGL_NO_SURFACE /\ surfState[surface] # "live")
            /\ context' = EGL_NO_CONTEXT
            /\ surface' = EGL_NO_SURFACE
            /\ display' = EGL_NO_DISPLAY
            /\ eglInitialized' = FALSE
       ELSE UNCHANGED <<display, context, surface, eglInitialized, ctxState, surfState,
                        doubleDestroy>>
    /\ hpc' = "idle"
    /\ hLast' = "stopped"
    /\ UNCHANGED <<playback, current, gl, images, units, hTmp, starts, render, past, frames, deletes>>

\* ---- render thread g: renderLoop() ----

\* where renderLoop() goes after the step handling: the compute renderer tests
\* whether to draw, the texture renderer tests whether to advance
AfterStep == IF variant = "compute" THEN "drawP" ELSE "tadv"

\* where renderLoop() goes when running is false: the compute renderer calls
\* cleanupGL(), the texture renderer unbinds at once
AfterLoop == IF variant = "compute" THEN "cleanup" ELSE "unbind"

\* bookkeeping of an index move made by render thread g in its current iteration
Moved(g) ==
    IF observe \in {"frame", "upload"} /\ imageNames # << >>
    THEN [iterMoves EXCEPT ![g] = @ + 1]
    ELSE iterMoves

\* bookkeeping of a consumed step that selected an image
Stepped == IF observe = "frame" /\ imageNames # << >> THEN TRUE ELSE unshown

\* the updateTexture() call render thread g makes for index idx in a loop
\* iteration: its bookkeeping and, after an upload, its checkGLError();
\* called is FALSE when nextFrame()/previousFrame() returned before the call
Counted(g, idx, called) ==
    IF observe \in {"upload", "restart"} /\ called
    THEN /\ iterCalls' = [iterCalls EXCEPT ![g] = @ + 1]
         /\ iterUploads' = [iterUploads EXCEPT ![g] = IF Uploads(idx) THEN @ + 1 ELSE @]
         /\ IF Uploads(idx) THEN checkGLError ELSE glError' = glError
    ELSE UNCHANGED uploads

\* auto currentTime = steady_clock::now(); auto elapsedTime = duration_cast<milliseconds>(
\* currentTime - lastFrameTimePoint); the clock has moved on since it was last read
ReadClock(g) ==
    IF observe = "clock"
    THEN \E d \in {frameTime \div 2, frameTime} :
           /\ clock + d <= MaxTime
           /\ clock' = clock + d
           /\ currentTime' = [currentTime EXCEPT ![g] = clock + d]
           /\ elapsedTime' = [elapsedTime EXCEPT ![g] = clock + d - lastFrameTimePoint]
           /\ UNCHANGED <<lastFrameTimePoint, advanceTimes>>
    ELSE UNCHANGED timing

\* the outcomes of "elapsedTime >= frameTime" in this iteration: computed from
\* the clock where it is modelled, either one where it is not
Elapsed(g) == IF observe = "clock" THEN {elapsedTime[g] >= frameTime} ELSE BOOLEAN

\* bookkeeping of an automatic advance taken by render thread g
Advanced(g) == IF observe = "clock" THEN Append(advanceTimes, currentTime[g]) ELSE advanceTimes

\* eglMakeCurrent at the top of renderLoop(); on failure running = false and return
RBind(g) ==
    /\ rpc[g] = "bind"
    /\ \E ok \in {b \in BOOLEAN : b => CanBind(g)} :
         IF ok
         THEN /\ current' = [current EXCEPT ![g] = context]
              /\ rpc' = [rpc EXCEPT ![g] = "init"]
              /\ running' = running
         ELSE /\ current' = current
              /\ rpc' = [rpc EXCEPT ![g] = "done"]
              /\ running' = FALSE
    /\ UNCHANGED <<currentImageIndex, paused, shouldStepForward, shouldStepBackward, display,
                   context, surface, eglInitialized, ctxState, surfState, gl, images, units, host,
                   history>>

\* glViewport and the initial updateTexture()
RInit(g) ==
    /\ rpc[g] = "init"
    /\ updateTexture(currentImageIndex)
    /\ IF Uploads(currentImageIndex) THEN checkGLError ELSE glError' = glError
    /\ GpuCall(g)
    /\ rpc' = [rpc EXCEPT ![g] = "while"]
    /\ UNCHANGED <<playback, egl, glObjects, images, side, timing, iterCalls, iterUploads, host,
                   moves, fwdCalls, unservedF, unservedB, toggles, frames, teardown>>

\* mutant: the loop test does not read running
RWhileForever(g) ==
    /\ rpc[g] = "while"
    /\ rpc' = [rpc EXCEPT ![g] = "chkF"]
    /\ iterMoves' = [iterMoves EXCEPT ![g] = 0]
    /\ iterCalls' = [iterCalls EXCEPT ![g] = 0]
    /\ iterUploads' = [iterUploads EXCEPT ![g] = 0]
    /\ UNCHANGED <<playback, egl, gl, images, side, timing, glError, host, past, unshown,
                   unpresented, teardown>>

\* while (running)
RWhile(g) ==
    /\ rpc[g] = "while"
    /\ rpc' = [rpc EXCEPT ![g] = IF running THEN "chkF" ELSE AfterLoop]
    /\ iterMoves' = [iterMoves EXCEPT ![g] = 0]
    /\ iterCalls' = [iterCalls EXCEPT ![g] = 0]
    /\ iterUploads' = [iterUploads EXCEPT ![g] = 0]
    /\ UNCHANGED <<playback, egl, gl, images, side, timing, glError, host, past, unshown,
                   unpresented, teardown>>

\* if (shouldStepForward) nextFrame();
RStepForward(g) ==
    /\ rpc[g] = "chkF"
    /\ IF shouldStepForward
       THEN /\ nextFrame("fwd")
            /\ Counted(g, currentImageIndex', imageNames # << >>)
            /\ GpuCall(g)
            /\ unservedF' = Request(unservedF, FALSE)
            /\ iterMoves' = Moved(g)
            /\ unshown' = Stepped
            /\ unpresented' = unpresented
            /\ rpc' = [rpc EXCEPT ![g] = "clrF"]
       ELSE /\ rpc' = [rpc EXCEPT ![g] = "chkB"]
            /\ UNCHANGED <<currentImageIndex, gl, lateGpuCall, moves, fwdCalls, unservedF,
                           frames, uploads>>
    /\ UNCHANGED <<paused, shouldStepForward, shouldStepBackward, running, egl, glObjects,
                   images, side, timing, host, unservedB, toggles, teardown>>

\* shouldStepForward = false; then the clock is read
RClearForward(g) ==
    /\ rpc[g] = "clrF"
    /\ shouldStepForward' = FALSE
    /\ ReadClock(g)
    /\ rpc' = [rpc EXCEPT ![g] = AfterStep]
    /\ UNCHANGED <<currentImageIndex, paused, shouldStepBackward, running, egl, gl, images, side,
                   uploads, host, history>>

\* else if (shouldStepBackward) previousFrame();
RStepBackward(g) ==
    /\ rpc[g] = "chkB"
    /\ IF shouldStepBackward
       THEN /\ previousFrame
            /\ Counted(g, currentImageIndex', imageNames # << >>)
            /\ GpuCall(g)
            /\ unservedB' = Request(unservedB, FALSE)
            /\ iterMoves' = Moved(g)
            /\ unshown' = Stepped
            /\ unpresented' = unpresented
            /\ rpc' = [rpc EXCEPT ![g] = "clrB"]
            /\ UNCHANGED timing
       ELSE /\ ReadClock(g)
            /\ rpc' = [rpc EXCEPT ![g] = AfterStep]
            /\ UNCHANGED <<currentImageIndex, gl, lateGpuCall, moves, fwdCalls, unservedB,
                           frames, uploads>>
    /\ UNCHANGED <<paused, shouldStepForward, shouldStepBackward, running, egl, glObjects,
                   images, side, host, unservedF, toggles, teardown>>

\* shouldStepBackward = false; then the clock is read
RClearBackward(g) ==
    /\ rpc[g] = "clrB"
    /\ shouldStepBackward' = FALSE
    /\ ReadClock(g)
    /\ rpc' = [rpc EXCEPT ![g] = AfterStep]
    /\ UNCHANGED <<currentImageIndex, paused, shouldStepForward, running, egl, gl, images, side,
                   uploads, host, history>>

\* if (!paused || ...
RDrawPaused(g) ==
    /\ rpc[g] = "drawP"
    /\ rpc' = [rpc EXCEPT ![g] = IF ~paused THEN "draw" ELSE "drawF"]
    /\ UNCHANGED <<playback, egl, gl, images, units, host, history>>

\* ... || shouldStepForward || ...
RDrawForward(g) ==
    /\ rpc[g] = "drawF"
    /\ rpc' = [rpc EXCEPT ![g] = IF shouldStepForward THEN "draw" ELSE "drawB"]
    /\ UNCHANGED <<playback, egl, gl, images, units, host, history>>

\* ... || shouldStepBackward); when false the iteration ends with the 5 ms sleep
RDrawBackward(g) ==
    /\ rpc[g] = "drawB"
    /\ rpc' = [rpc EXCEPT ![g] = IF shouldStepBackward THEN "draw" ELSE "while"]
    /\ UNCHANGED <<playback, egl, gl, images, units, host, history>>

\* mutant: a GL error found after the draw ends playback
RPresentStopsOnError(g) ==
    /\ rpc[g] = "draw"
    /\ GpuCall(g)
    /\ checkGLError
    /\ running' = (running /\ ~glError')
    /\ unshown' = FALSE
    /\ unpresented' = IF unpresented = currentImageIndex THEN -1 ELSE unpresented
    /\ rpc' = [rpc EXCEPT ![g] = "adv"]
    /\ UNCHANGED <<currentImageIndex, paused, shouldStepForward, shouldStepBackward, egl, gl,
                   images, side, timing, iterCalls, iterUploads, host, moves, fwdCalls,
                   unservedF, unservedB, toggles, iterMoves, teardown>>

\* processImageWithCompute(); renderProcessedImage(); eglSwapBuffers. With the
\* frame statistics observed the step ends at the draw call of
\* renderProcessedImage(), which returns before it when a handle is 0
RPresent(g) ==
    /\ rpc[g] = "draw"
    /\ GpuCall(g)
    /\ checkGLError
    /\ unshown' = FALSE
    /\ unpresented' = IF unpresented = currentImageIndex THEN -1 ELSE unpresented
    /\ rpc' = [rpc EXCEPT ![g] = IF /\ observe = "race"
                                    /\ glObjects.renderShaderProgram # 0
                                    /\ glObjects.outputTexture # 0
                                 THEN "fcLd"
                                 ELSE "adv"]
    /\ UNCHANGED <<playback, egl, gl, images, side, timing, iterCalls, iterUploads, host, moves,
                   fwdCalls, unservedF, unservedB, toggles, iterMoves, teardown>>

\* mutant: the automatic advance does not test paused
RAdvanceUnpaused(g) ==
    /\ rpc[g] = "adv"
    /\ \E elapsed \in Elapsed(g) :
         IF elapsed
         THEN /\ nextFrame("auto")
              /\ Counted(g, currentImageIndex', imageNames # << >>)
              /\ lastFrameTimePoint' = currentTime[g]
              /\ advanceTimes' = Advanced(g)
              /\ GpuCall(g)
              /\ iterMoves' = Moved(g)
              /\ unpresented' = IF observe = "skip" /\ imageNames # << >>
                                THEN currentImageIndex'
                                ELSE unpresented
         ELSE UNCHANGED <<currentImageIndex, gl, lateGpuCall, moves, fwdCalls, iterMoves,
                          lastFrameTimePoint, advanceTimes, uploads, unpresented>>
    /\ rpc' = [rpc EXCEPT ![g] = "while"]
    /\ UNCHANGED <<paused, shouldStepForward, shouldStepBackward, running, egl, glObjects,
                   images, side, clock, currentTime, elapsedTime, host, unservedF, unservedB,
                   toggles, unshown, teardown>>

\* if (!paused && elapsedTime >= frameTime) { nextFrame(); lastFrameTimePoint = currentTime; }
\* then the 5 ms sleep; elapsed is the outcome of the clock comparison of this iteration
RAdvance(g) ==
    /\ rpc[g] = "adv"
    /\ \E elapsed \in Elapsed(g) :
         IF ~paused /\ elapsed
         THEN /\ nextFrame("auto")
              /\ Counted(g, currentImageIndex', imageNames # << >>)
              /\ lastFrameTimePoint' = currentTime[g]
              /\ advanceTimes' = Advanced(g)
              /\ GpuCall(g)
              /\ iterMoves' = Moved(g)
              /\ unpresented' = IF observe = "skip" /\ imageNames # << >>
                                THEN currentImageIndex'
                                ELSE unpresented
         ELSE UNCHANGED <<currentImageIndex, gl, lateGpuCall, moves, fwdCalls, iterMoves,
                          lastFrameTimePoint, advanceTimes, uploads, unpresented>>
    /\ rpc' = [rpc EXCEPT ![g] = "while"]
    /\ UNCHANGED <<paused, shouldStepForward, shouldStepBackward, running, egl, glObjects,
                   images, side, clock, currentTime, elapsedTime, host, unservedF, unservedB,
                   toggles, unshown, teardown>>

\* cleanupGL(): the textures and programs are deleted, the handles are kept
RCleanup(g) ==
    /\ rpc[g] = "cleanup"
    /\ inputImage' = 0
    /\ outputSize' = "none"
    /\ inputDims' = <<0, 0>>
    /\ outputDims' = <<0, 0>>
    /\ deletes' = [deletes EXCEPT ![g] = @ + 1]
    /\ rpc' = [rpc EXCEPT ![g] = "unbind"]
    /\ UNCHANGED <<playback, egl, glObjects, images, units, host, past, frames, doubleDestroy>>

\* eglMakeCurrent(.., EGL_NO_CONTEXT); eglReleaseThread(); the thread ends
RUnbind(g) ==
    /\ rpc[g] = "unbind"
    /\ current' = Unbind(current, g)
    /\ rpc' = [rpc EXCEPT ![g] = "done"]
    /\ UNCHANGED <<playback, display, context, surface, eglInitialized, ctxState, surfState,
                   gl, images, units, host, history>>

\* ---- render thread g: the loop body of the texture renderer (render/Renderer.cpp) ----

\* if (elapsedTime.count() >= frameTime.count() && !paused) { nextFrame(); lastFrameTimePoint = currentTime; }
TAdvance(g) ==
    /\ rpc[g] = "tadv"
    /\ \E elapsed \in Elapsed(g) :
         IF elapsed /\ ~paused
         THEN /\ nextFrame("auto")
              /\ Counted(g, currentImageIndex', imageNames # << >>)
              /\ lastFrameTimePoint' = currentTime[g]
              /\ advanceTimes' = Advanced(g)
              /\ GpuCall(g)
              /\ iterMoves' = Moved(g)
              /\ unpresented' = IF observe = "skip" /\ imageNames # << >>
                                THEN currentImageIndex'
                                ELSE unpresented
         ELSE UNCHANGED <<currentImageIndex, gl, lateGpuCall, moves, fwdCalls, iterMoves,
                          lastFrameTimePoint, advanceTimes, uploads, unpresented>>
    /\ rpc' = [rpc EXCEPT ![g] = "tdraw"]
    /\ UNCHANGED <<paused, shouldStepForward, shouldStepBackward, running, egl, glObjects,
                   images, side, clock, currentTime, elapsedTime, host, unservedF, unservedB,
                   toggles, unshown, teardown>>

\* glClear; renderTexturedQuad(); eglSwapBuffers
TPresent(g) ==
    /\ rpc[g] = "tdraw"
    /\ GpuCall(g)
    /\ checkGLError
    /\ unshown' = FALSE
    /\ unpresented' = IF unpresented = currentImageIndex THEN -1 ELSE unpresented
    /\ rpc' = [rpc EXCEPT ![g] = "tsleep"]
    /\ UNCHANGED <<playback, egl, gl, images, side, timing, iterCalls, iterUploads, host, moves,
                   fwdCalls, unservedF, unservedB, toggles, iterMoves, teardown>>

\* if (paused) sleep 10 ms else sleep 1 ms
TSleep(g) ==
    /\ rpc[g] = "tsleep"
    /\ rpc' = [rpc EXCEPT ![g] = "while"]
    /\ UNCHANGED <<playback, egl, gl, images, units, host, history>>

Next ==
    \/ TogglePauseLoad
    \/ TogglePauseStore
    \/ StepForwardCheck
    \/ StepForwardSet
    \/ StepBackwardCheck
    \/ StepBackwardSet
    \/ IsPaused
    \/ StartCheck
    \/ StartEGL
    \/ InitGLBind
    \/ InitGLBuild
    \/ InitGLUnbind
    \/ StartFail
    \/ StartUnbind
    \/ StartSpawn
    \/ StopCheck
    \/ StopClear
    \/ StopDestroy
    \/ \E g \in Gens : RBind(g)
    \/ \E g \in Gens : RInit(g)
    \/ \E g \in Gens : RWhile(g)
    \/ \E g \in Gens : RStepForward(g)
    \/ \E g \in Gens : RClearForward(g)
    \/ \E g \in Gens : RStepBackward(g)
    \/ \E g \in Gens : RClearBackward(g)
    \/ \E g \in Gens : RDrawPaused(g)
    \/ \E g \in Gens : RDrawForward(g)
    \/ \E g \in Gens : RDrawBackward(g)
    \/ \E g \in Gens : RPresent(g)
    \/ \E g \in Gens : RAdvance(g)
    \/ \E g \in Gens : RCleanup(g)
    \/ \E g \in Gens : RUnbind(g)

Spec == Init /\ [][Next]_vars

SpecCount == InitCount /\ [][Next]_vars

SpecTrip == InitTrip /\ [][Next]_vars

SpecToggle == InitToggle /\ [][Next]_vars

\* the same program with the moves and frames of each loop iteration recorded
InitFrame == Constructed("frame", "compute")

SpecFrame == InitFrame /\ [][Next]_vars

\* the steps of render thread g
RenderThread(g) ==
    \/ RBind(g) \/ RInit(g) \/ RWhile(g)
    \/ RStepForward(g) \/ RClearForward(g) \/ RStepBackward(g) \/ RClearBackward(g)
    \/ RDrawPaused(g) \/ RDrawForward(g) \/ RDrawBackward(g)
    \/ RPresent(g) \/ RAdvance(g) \/ RCleanup(g) \/ RUnbind(g)

\* a renderer constructed over two valid images
InitFair == Constructed("frame", "compute") /\ Len(imageNames) = 2 /\ badImage = 0

\* the same with a scheduler that lets every started render thread run on:
\* each of its steps is a load, a store, a bounded GL/EGL call or a 5 ms sleep
SpecFair == InitFair /\ [][Next]_vars /\ \A g \in Gens : WF_vars(RenderThread(g))

\* a renderer over one valid image whose host may call start() once more
InitRestart == Constructed("restart", "compute") /\ Len(imageNames) = 1 /\ badImage = 0

SpecRestart == InitRestart /\ [][Next]_vars

\* ---- the texture renderer (render/Renderer.cpp): same host calls, its own loop body ----

InitRender == Constructed("frame", "render")

NextRender ==
    \/ TogglePauseLoad
    \/ TogglePauseStore
    \/ StepForwardCheck
    \/ StepForwardSet
    \/ StepBackwardCheck
    \/ StepBackwardSet
    \/ IsPaused
    \/ StartCheck
    \/ StartEGL
    \/ InitGLBind
    \/ InitGLBuild
    \/ InitGLUnbind
    \/ StartFail
    \/ StartUnbind
    \/ StartSpawn
    \/ StopCheck
    \/ StopClear
    \/ StopDestroy
    \/ \E g \in Gens : RBind(g)
    \/ \E g \in Gens : RInit(g)
    \/ \E g \in Gens : RWhile(g)
    \/ \E g \in Gens : RStepForward(g)
    \/ \E g \in Gens : RClearForward(g)
    \/ \E g \in Gens : RStepBackward(g)
    \/ \E g \in Gens : RClearBackward(g)
    \/ \E g \in Gens : TAdvance(g)
    \/ \E g \in Gens : TPresent(g)
    \/ \E g \in Gens : TSleep(g)
    \/ \E g \in Gens : RUnbind(g)

SpecRender == InitRender /\ [][NextRender]_vars

\* ---- both renderers over image lists with one odd image ----

InitUpload ==
    /\ \E v \in {"compute", "render"} : Constructed("upload", v)
    /\ imageNames # << >>

NextUpload ==
    \/ Next
    \/ \E g \in Gens : TAdvance(g)
    \/ \E g \in Gens : TPresent(g)
    \/ \E g \in Gens : TSleep(g)

SpecUpload == InitUpload /\ [][NextUpload]_vars

\* ---- both renderers playing two valid images, the automatic advances recorded ----

InitSkip ==
    /\ \E v \in {"compute", "render"} : Constructed("skip", v)
    /\ Len(imageNames) = 2 /\ badImage = 0

SpecSkip == InitSkip /\ [][NextUpload]_vars

\* ---- both renderers constructed with an empty image list ----

InitEmpty ==
    /\ \E v \in {"compute", "render"} : Constructed("empty", v)
    /\ imageNames = << >>

SpecEmpty == InitEmpty /\ [][NextUpload]_vars

\* the same renderer with the steady clock modelled
InitClock == Constructed("clock", "compute") /\ Len(imageNames) = 1 /\ badImage = 0

SpecClock == InitClock /\ [][Next]_vars

\* ---- the frame statistics written by the render threads of two start() calls ----

\* the end of renderProcessedImage() and the eglSwapBuffers after it, one read or
\* write of frameCount or totalRenderTime in each step:
\*   frameCount++;  totalRenderTime += lastFrameTime;
\*   if (frameCount >= statsResetInterval) { print; frameCount = 0; totalRenderTime = 0.0; }
RStatistics(g) ==
    /\ CASE rpc[g] = "fcLd" ->
               /\ recorded + Cardinality({h \in Gens : rpc[h] \in {"fcSt", "trLd", "trSt"}})
                     < MaxFrames
               /\ statTmp' = [statTmp EXCEPT ![g] = frameCount]
               /\ rpc' = [rpc EXCEPT ![g] = "fcSt"]
               /\ UNCHANGED <<frameCount, totalRenderTime, report, recorded, window, lateGpuCall>>
          [] rpc[g] = "fcSt" ->
               /\ frameCount' = statTmp[g] + 1
               /\ rpc' = [rpc EXCEPT ![g] = "trLd"]
               /\ UNCHANGED <<totalRenderTime, report, recorded, window, statTmp, lateGpuCall>>
          [] rpc[g] = "trLd" ->
               /\ statTmp' = [statTmp EXCEPT ![g] = totalRenderTime]
               /\ rpc' = [rpc EXCEPT ![g] = "trSt"]
               /\ UNCHANGED <<frameCount, totalRenderTime, report, recorded, window, lateGpuCall>>
          [] rpc[g] = "trSt" ->
               /\ \E sample \in Samples :
                     /\ totalRenderTime' = statTmp[g] + sample
                     /\ window' = [window EXCEPT ![sample] = @ + 1]
               /\ recorded' = recorded + 1
               /\ rpc' = [rpc EXCEPT ![g] = "chk"]
               /\ UNCHANGED <<frameCount, report, statTmp, lateGpuCall>>
          [] rpc[g] = "chk" ->
               IF frameCount >= statsResetInterval
               THEN /\ report' = [frameCount |-> frameCount, totalRenderTime |-> totalRenderTime,
                                  averageOver |-> frameCount]
                    /\ rpc' = [rpc EXCEPT ![g] = "rstC"]
                    /\ UNCHANGED <<frameCount, totalRenderTime, recorded, window, statTmp,
                                   lateGpuCall>>
               ELSE /\ GpuCall(g)
                    /\ rpc' = [rpc EXCEPT ![g] = "adv"]
                    /\ UNCHANGED stats
          [] rpc[g] = "rstC" ->
               /\ frameCount' = 0
               /\ rpc' = [rpc EXCEPT ![g] = "rstT"]
               /\ UNCHANGED <<totalRenderTime, report, recorded, window, statTmp, lateGpuCall>>
          [] rpc[g] = "rstT" ->
               /\ totalRenderTime' = 0
               /\ window' = [x \in Samples |-> 0]
               /\ GpuCall(g)
               /\ rpc' = [rpc EXCEPT ![g] = "adv"]
               /\ UNCHANGED <<frameCount, report, recorded, statTmp>>
          [] OTHER -> FALSE
    /\ UNCHANGED <<playback, egl, gl, images, build, dispatch, loader, callers, timing, uploads,
                   host, moves, fwdCalls, unservedF, unservedB, toggles, frames, teardown>>

InitRace == Constructed("race", "compute") /\ imageNames = << >>

NextRace ==
    \/ Next
    \/ \E g \in Gens : RStatistics(g)

SpecRace == InitRace /\ [][NextRace]_vars

\* ---- building a program: compileShader, createComputeShaderProgram, ----
\* ---- createRenderShaderProgram, createShaderProgram (render/)       ----

renderer == <<playback, egl, gl, images, host, render, history, timing, uploads>>

\* glCreateShader / glCreateProgram: a fresh name for a live object
NewName(h) == h.names + 1
glCreateShader(h)  == [h EXCEPT !.shaders = @ \cup {NewName(h)}, !.names = NewName(h)]
glCreateProgram(h) == [h EXCEPT !.programs = @ \cup {NewName(h)}, !.names = NewName(h)]

\* glAttachShader(p, s): an error without effect unless both are live objects
glAttachShader(h, p, s) ==
    IF p \in h.programs /\ s \in h.shaders
    THEN [h EXCEPT !.attached = @ \cup {<<p, s>>}]
    ELSE h

\* glDeleteShader(s): 0 is ignored; an attached shader is only flagged and
\* goes when it is detached
glDeleteShader(h, s) ==
    CASE s \notin h.shaders -> h
      [] \E p \in h.programs : <<p, s>> \in h.attached -> [h EXCEPT !.flagged = @ \cup {s}]
      [] OTHER -> [h EXCEPT !.shaders = @ \ {s}, !.flagged = @ \ {s}]

\* glDetachShader(p, s): a flagged shader is deleted when its last attachment goes
glDetachShader(h, p, s) ==
    IF <<p, s>> \notin h.attached
    THEN h
    ELSE LET rest == h.attached \ {<<p, s>>}
             gone == s \in h.flagged /\ ~\E q \in h.programs : <<q, s>> \in rest
         IN  [h EXCEPT !.attached = rest,
                       !.shaders = IF gone THEN @ \ {s} ELSE @,
                       !.flagged = IF gone THEN @ \ {s} ELSE @]

\* glDeleteProgram(p): 0 is ignored; the program's shaders are detached
glDeleteProgram(h, p) ==
    IF p \notin h.programs
    THEN h
    ELSE LET rest == {a \in h.attached : a[1] # p}
             gone == {sh \in h.flagged : ~\E a \in rest : a[2] = sh}
         IN  [h EXCEPT !.programs = @ \ {p}, !.attached = rest,
                       !.shaders = @ \ gone, !.flagged = @ \ gone]

\* compileShader(): the heap it leaves for each way it can end; the shader it
\* returns is NewName(h) when it ends "ok" and 0 otherwise.  In render/ the
\* result of glCreateShader is not tested: for shader 0 glGetShaderiv stores
\* nothing in success and both values of the test return 0 with no object made.
CompileOutcomes == {"createFail", "compileFail", "ok"}
compileShader(h, outcome) ==
    CASE outcome = "createFail" -> h
      [] outcome = "compileFail" -> glDeleteShader(glCreateShader(h), NewName(h))
      [] OTHER -> glCreateShader(h)

\* mutant: a link error deletes the program and forgets the shaders
ReleaseUnlinkedKeepsShaders(h, prog, first, second) == glDeleteProgram(h, prog)

\* the error branch after glLinkProgram: glDeleteProgram, then glDeleteShader per shader
ReleaseUnlinked(h, prog, first, second) ==
    glDeleteShader(glDeleteShader(glDeleteProgram(h, prog), first), second)

\* the success branch: glDetachShader per shader, then glDeleteShader per shader
ReleaseLinked(h, prog, first, second) ==
    glDeleteShader(glDeleteShader(glDetachShader(glDetachShader(h, prog, first), prog, second),
                                  first), second)

\* a call of one of the three functions
BuildCall ==
    /\ bpc = "idle"
    /\ builds < MaxBuilds
    /\ \E f \in {"createComputeShaderProgram", "createRenderShaderProgram",
                   "createShaderProgram"} : bfun' = f
    /\ bloc' = [NoLocals EXCEPT !.before = glHeap.programs]
    /\ bret' = 0
    /\ bpc' = "compile1"
    /\ builds' = builds + 1
    /\ UNCHANGED <<renderer, callers, stats, dispatch, loader, glHeap>>

\* the first compileShader() and "if (!shader) return 0"
BuildCompileFirst ==
    /\ bpc = "compile1"
    /\ \E outcome \in CompileOutcomes :
         /\ glHeap' = compileShader(glHeap, outcome)
         /\ IF outcome = "ok"
            THEN /\ bloc' = [bloc EXCEPT !.first = NewName(glHeap)]
                 /\ bpc' = IF bfun = "createComputeShaderProgram" THEN "program" ELSE "compile2"
            ELSE /\ bloc' = bloc
                 /\ bpc' = "returned"
    /\ bret' = 0
    /\ UNCHANGED <<renderer, callers, stats, dispatch, loader, bfun, builds>>

\* the fragment shader: compileShader() and "if (!fragmentShader) { glDeleteShader(vertexShader); return 0; }"
BuildCompileSecond ==
    /\ bpc = "compile2"
    /\ \E outcome \in CompileOutcomes :
         IF outcome = "ok"
         THEN /\ glHeap' = compileShader(glHeap, outcome)
              /\ bloc' = [bloc EXCEPT !.second = NewName(glHeap)]
              /\ bpc' = "program"
         ELSE /\ glHeap' = glDeleteShader(compileShader(glHeap, outcome), bloc.first)
              /\ bloc' = bloc
              /\ bpc' = "returned"
    /\ bret' = 0
    /\ UNCHANGED <<renderer, callers, stats, dispatch, loader, bfun, builds>>

\* glCreateProgram(); computeRenderer/ tests the result, deletes the shaders
\* and returns 0; render/ goes on with program 0
BuildProgram ==
    /\ bpc = "program"
    /\ \E ok \in BOOLEAN :
         CASE ok ->
                /\ glHeap' = glCreateProgram(glHeap)
                /\ bloc' = [bloc EXCEPT !.program = NewName(glHeap)]
                /\ bpc' = "link"
           [] ~ok /\ bfun = "createShaderProgram" ->
                /\ UNCHANGED <<glHeap, bloc>>
                /\ bpc' = "link"
           [] OTHER ->
                /\ glHeap' = glDeleteShader(glDeleteShader(glHeap, bloc.first), bloc.second)
                /\ bloc' = bloc
                /\ bpc' = "returned"
    /\ bret' = 0
    /\ UNCHANGED <<renderer, callers, stats, dispatch, loader, bfun, builds>>

\* glAttachShader per shader, glLinkProgram, the test of GL_LINK_STATUS and the
\* two branches; for program 0 (render/ only) glGetProgramiv stores nothing in
\* linked, so the test can go either way
BuildLink ==
    /\ bpc = "link"
    /\ \E linked \in BOOLEAN :
         LET h == glAttachShader(glAttachShader(glHeap, bloc.program, bloc.first),
                                 bloc.program, bloc.second)
         IN  IF linked
             THEN /\ glHeap' = ReleaseLinked(h, bloc.program, bloc.first, bloc.second)
                  /\ bret' = bloc.program
             ELSE /\ glHeap' = ReleaseUnlinked(h, bloc.program, bloc.first, bloc.second)
                  /\ bret' = 0
    /\ bpc' = "returned"
    /\ UNCHANGED <<renderer, callers, stats, dispatch, loader, bfun, bloc, builds>>

\* the caller takes the returned handle
BuildReturn ==
    /\ bpc = "returned"
    /\ bpc' = "idle"
    /\ UNCHANGED <<renderer, callers, stats, dispatch, loader, glHeap, bfun, bloc, bret, builds>>

InitBuild == Constructed("build", "compute") /\ imageNames = << >>

NextBuild ==
    \/ BuildCall
    \/ BuildCompileFirst
    \/ BuildCompileSecond
    \/ BuildProgram
    \/ BuildLink
    \/ BuildReturn

SpecBuild == InitBuild /\ [][NextBuild]_vars

\* ---- frame statistics: the end of renderProcessedImage() / renderTexturedQuad() ----

\* mutant: the window is tested with > instead of >=
recordLate(count, total, sample) ==
    IF count + 1 > statsResetInterval
    THEN [frameCount |-> 0, totalRenderTime |-> 0,
          report |-> [frameCount |-> count + 1, totalRenderTime |-> total + sample,
                      averageOver |-> count + 1]]
    ELSE [frameCount |-> count + 1, totalRenderTime |-> total + sample, report |-> NoReport]

\* frameCount++; totalRenderTime += lastFrameTime; if (frameCount >= statsResetInterval)
\* { print frameCount, totalRenderTime, totalRenderTime / frameCount; reset both }
record(count, total, sample) ==
    IF count + 1 >= statsResetInterval
    THEN [frameCount |-> 0, totalRenderTime |-> 0,
          report |-> [frameCount |-> count + 1, totalRenderTime |-> total + sample,
                      averageOver |-> count + 1]]
    ELSE [frameCount |-> count + 1, totalRenderTime |-> total + sample, report |-> NoReport]

\* one frame is rendered in sample milliseconds and recorded
RecordFrame ==
    /\ recorded < MaxRecords
    /\ \E sample \in Samples :
         LET r == record(frameCount, totalRenderTime, sample)
         IN  /\ frameCount' = r.frameCount
             /\ totalRenderTime' = r.totalRenderTime
             /\ report' = r.report
             /\ window' = IF recorded % 60 = 0
                          THEN [x \in Samples |-> IF x = sample THEN 1 ELSE 0]
                          ELSE [window EXCEPT ![sample] = @ + 1]
    /\ recorded' = recorded + 1
    /\ UNCHANGED <<renderer, callers, build, dispatch, loader, statTmp>>

InitStats == Constructed("stats", "compute") /\ imageNames = << >>

NextStats == RecordFrame

SpecStats == InitStats /\ [][NextStats]_vars

\* ---- processImageWithCompute(): the work-group counts ----

\* local size of the compute shader: layout(local_size_x = 16, local_size_y = 16)
TileSize == 16

\* mutant: the division rounds down
NumGroupsFloor(size) == size \div TileSize

\* GLuint numGroupsX = (width + 15) / 16, integer division of a GLint
NumGroups(size) == (size + 15) \div TileSize

\* glGetTexLevelParameteriv(GL_TEXTURE_WIDTH / GL_TEXTURE_HEIGHT) on the input texture
GetTexLevelParameters ==
    /\ \E w \in 1..MaxDim, h \in 1..MaxDim :
         /\ texWidth' = w
         /\ texHeight' = h
    /\ numGroupsX' = 0
    /\ numGroupsY' = 0
    /\ UNCHANGED <<renderer, callers, stats, build, loader>>

\* the two divisions and glDispatchCompute(numGroupsX, numGroupsY, 1)
DispatchCompute ==
    /\ texWidth # 0 /\ numGroupsX = 0
    /\ numGroupsX' = NumGroups(texWidth)
    /\ numGroupsY' = NumGroups(texHeight)
    /\ UNCHANGED <<renderer, callers, stats, build, loader, texWidth, texHeight>>

InitDispatch == Constructed("dispatch", "compute") /\ imageNames = << >>

NextDispatch ==
    \/ GetTexLevelParameters
    \/ DispatchCompute

SpecDispatch == InitDispatch /\ [][NextDispatch]_vars

\* ---- ImageLoader (ImageLoader.h, ImageLoader.cpp) ----

\* the characters '0' to '9'
isdigit(c) == c \in 48..57

\* std::stoi throws std::invalid_argument when no digit starts the string
\* (there is no white space or sign in these names, and their numbers are
\* far below INT_MAX)
stoiThrows(s) == s = << >> \/ ~isdigit(s[1])

\* std::stoi: the value of the leading digits, whatever follows them; the
\* digits from position i on are added to acc
RECURSIVE stoi(_, _, _)
stoi(s, i, acc) ==
    IF i > Len(s) \/ ~isdigit(s[i])
    THEN acc
    ELSE stoi(s, i + 1, acc * 10 + (s[i] - 48))

\* operator< of std::string
RECURSIVE StringLess(_, _)
StringLess(a, b) ==
    IF b = << >> THEN FALSE
    ELSE IF a = << >> THEN TRUE
    ELSE IF Head(a) # Head(b) THEN Head(a) < Head(b)
    ELSE StringLess(Tail(a), Tail(b))

\* NumericStringCompare::operator(): both std::stoi calls sit in one try block
NumericStringCompare(a, b) ==
    IF stoiThrows(a) \/ stoiThrows(b)
    THEN StringLess(a, b)
    ELSE stoi(a, 1, 0) < stoi(b, 1, 0)

\* std::map::lower_bound: the first position whose key is not less than k
LowerBound(m, k) ==
    CHOOSE i \in 1..(Len(m) + 1) :
        /\ i = Len(m) + 1 \/ ~NumericStringCompare(m[i].first, k)
        /\ \A j \in 1..(i - 1) : NumericStringCompare(m[j].first, k)

\* std::map::find: the position of the key equivalent to k, 0 for end()
MapFind(m, k) ==
    LET i == LowerBound(m, k)
    IN  IF i <= Len(m) /\ ~NumericStringCompare(k, m[i].first) THEN i ELSE 0

\* images[k] = v: operator[] finds the equivalent key or inserts k, then the
\* mapped value is assigned; a key already in the map is kept as it is
MapAssign(m, k, v) ==
    LET i == LowerBound(m, k)
    IN  IF MapFind(m, k) # 0
        THEN [m EXCEPT ![i].second = v]
        ELSE SubSeq(m, 1, i - 1) \o <<[first |-> k, second |-> v]>> \o SubSeq(m, i, Len(m))

\* the path of a file inside its directory
FileName(f) ==
    f.stem \o (IF f.kind = "other"
               THEN <<46, 116, 120, 116>>     \* ".txt"
               ELSE <<46, 112, 110, 103>>)    \* ".png"

\* std::sort(pngFiles.begin(), pngFiles.end())
RECURSIVE SortFiles(_)
SortFiles(S) ==
    IF S = {}
    THEN << >>
    ELSE LET f == CHOOSE x \in S : \A y \in S \ {x} : StringLess(FileName(x), FileName(y))
         IN  <<f>> \o SortFiles(S \ {f})

\* stbi_load() returns the pixels of the file
Decodes(f) == f.kind = "png"

\* the loop over pngFiles: images[baseName] = ImageData(...) for each file
\* that decodes; the image is named by the file it was decoded from
RECURSIVE StoreAll(_, _)
StoreAll(m, files) ==
    IF files = << >>
    THEN m
    ELSE StoreAll(IF Decodes(Head(files))
                  THEN MapAssign(m, Head(files).stem, Head(files).stem)
                  ELSE m,
                  Tail(files))

\* loadImagesFromDirectory(directory, options); exists is the outcome of
\* fs::exists(directory) && fs::is_directory(directory), png the PNG files
\* sorted, files these cut to options.maxImages
loadImagesFromDirectory ==
    /\ \E exists \in BOOLEAN, maxImages \in 0..1 :
         /\ lastArg' = maxImages
         /\ IF ~exists
            THEN /\ returned' = FALSE
                 /\ UNCHANGED <<loaderImages, stored, decodeFailed>>
            ELSE LET png   == SortFiles({f \in directory : f.kind # "other"})
                     files == IF maxImages > 0 /\ Len(png) > maxImages
                              THEN SubSeq(png, 1, maxImages)
                              ELSE png
                     good  == SelectSeq(files, Decodes)
                 IN  /\ loaderImages' = StoreAll(loaderImages, files)
                     /\ returned' = (Len(good) > 0)
                     /\ stored' = stored \cup {good[i].stem : i \in DOMAIN good}
                     /\ decodeFailed' = (decodeFailed \/ Len(good) < Len(files))
    /\ lastCall' = "load"
    /\ UNCHANGED <<renderer, callers, stats, build, dispatch, directory>>

clearImages ==
    /\ loaderImages' = << >>
    /\ stored' = {}
    /\ decodeFailed' = FALSE
    /\ lastCall' = "clear"
    /\ lastArg' = << >>
    /\ returned' = << >>
    /\ UNCHANGED <<renderer, callers, stats, build, dispatch, directory>>

getImage ==
    /\ \E name \in Names :
         /\ lastArg' = name
         /\ returned' = IF MapFind(loaderImages, name) # 0
                        THEN loaderImages[MapFind(loaderImages, name)].second
                        ELSE << >>
    /\ lastCall' = "get"
    /\ UNCHANGED <<renderer, callers, stats, build, dispatch, directory, loaderImages, stored,
                   decodeFailed>>

getImageNames ==
    /\ returned' = [i \in DOMAIN loaderImages |-> loaderImages[i].first]
    /\ lastCall' = "names"
    /\ lastArg' = << >>
    /\ UNCHANGED <<renderer, callers, stats, build, dispatch, directory, loaderImages, stored,
                   decodeFailed>>

InitLoader == Constructed("loader", "compute") /\ imageNames = << >>

NextLoader ==
    \/ loadImagesFromDirectory
    \/ clearImages
    \/ getImage
    \/ getImageNames

SpecLoader == InitLoader /\ [][NextLoader]_vars

\* ---- togglePause() called from several threads ----

\* thread c, the load of the atomic paused in "paused = !paused"
CallerLoad(c) ==
    /\ tpc[c] = "idle"
    /\ toggled + Cardinality({d \in 1..MaxCallers : tpc[d] = "store"}) < MaxToggles
    /\ tTmp' = [tTmp EXCEPT ![c] = paused]
    /\ tpc' = [tpc EXCEPT ![c] = "store"]
    /\ UNCHANGED <<playback, egl, gl, images, host, render, history, stats, build, dispatch,
                   loader, timing, uploads, toggled>>

\* thread c, the store of the negated value; the call returns
CallerStore(c) ==
    /\ tpc[c] = "store"
    /\ paused' = ~tTmp[c]
    /\ tTmp' = [tTmp EXCEPT ![c] = FALSE]
    /\ tpc' = [tpc EXCEPT ![c] = "idle"]
    /\ toggled' = toggled + 1
    /\ UNCHANGED <<currentImageIndex, shouldStepForward, shouldStepBackward, running, egl, gl,
                   images, host, render, history, stats, build, dispatch, loader, timing,
                   uploads>>

InitCallers == Constructed("callers", "compute") /\ imageNames = << >>

NextCallers ==
    \/ \E c \in 1..MaxCallers : CallerLoad(c)
    \/ \E c \in 1..MaxCallers : CallerStore(c)

SpecCallers == InitCallers /\ [][NextCallers]_vars

\* ---- steps of the render loop named by the claims ----

\* render thread g consumes a step flag: the flag is found set and the move is made
ForwardMove(g)  == rpc[g] = "chkF" /\ rpc'[g] = "clrF"
BackwardMove(g) == rpc[g] = "chkB" /\ rpc'[g] = "clrB"

\* the positions of renderLoop() between the bind and the unbind
Bound == {"init", "while", "chkF", "clrF", "chkB", "clrB", "drawP", "drawF", "drawB",
          "draw", "fcLd", "fcSt", "trLd", "trSt", "chk", "rstC", "rstT", "adv",
          "cleanup", "unbind", "tadv", "tdraw", "tsleep"}

\* ---- claims ----

\* C1: the render thread applies a step move (nextFrame()/previousFrame() on a
\* step flag) only at a moment when paused is true; a step flag is never
\* consumed while playback is running.
C1_StepOnlyWhilePaused ==
    [][(\E g \in Gens : imageNames # << >> /\ (ForwardMove(g) \/ BackwardMove(g))) => paused]_vars

\* C2: when stop() destroys the context and surface the render thread has
\* already unbound the context, and no render thread issues a texture upload,
\* dispatch, draw or eglSwapBuffers on a destroyed context or surface.
C2_NoGpuCallAfterDestroy ==
    /\ ~lateGpuCall
    /\ \A g \in Gens : current[g] # 0 =>
           ctxState[current[g]] = "live" /\ surfState[current[g]] = "live"

\* C3: in one start()/renderLoop() cycle the context is current on at most one
\* thread: the initializing thread holds it only inside initializeGL() and has
\* unbound it before the render thread is spawned, and the render thread holds
\* it at every position where it issues GL calls.
C3_SingleCurrentThread ==
    starts <= 1 =>
        /\ Cardinality({t \in Threads : current[t] # 0}) <= 1
        /\ current[0] # 0 => hpc \in {"ig_build", "ig_unbind", "st_fail"}
        /\ \A g \in Gens :
             /\ rpc[g] = "bind" => current[0] = 0
             /\ rpc[g] \in Bound <=> current[g] # 0

\* C3 witness: after the hand-off the render thread holds the context and is
\* about to present a frame while the host thread holds nothing.
C3_Witness ==
    \E g \in Gens : rpc[g] = "draw" /\ current[g] = g /\ current[0] = 0 /\ hpc = "idle"

\* C4 as stated: starting paused at index 0, after k accepted stepForward()
\* calls (k in 1..N) and once no request is pending, the index is k mod N.
C4_IndexIsCallsModN ==
    ( /\ observe = "count" /\ onlyFwd
      /\ fwdCalls \in 1..Len(imageNames)
      /\ ~shouldStepForward /\ hpc # "sf_set"
      /\ \A g \in Gens : rpc[g] # "clrF" )
    => currentImageIndex = fwdCalls % Len(imageNames)

\* C4 amended: starting at index 0, with no automatic advance and no backward
\* step, after k forward steps consumed by the render thread the index is
\* k mod N.
C4_IndexIsStepsModN ==
    (observe = "count" /\ onlyFwd /\ imageNames # << >>)
    => currentImageIndex = fwdMoves % Len(imageNames)

\* C4 witness: N >= 2 forward steps were consumed one by one, each call after
\* the previous one, and the index is back at 0.
C4_Witness ==
    /\ observe = "count" /\ onlyFwd /\ paused
    /\ Len(imageNames) >= 2
    /\ fwdMoves = Len(imageNames) /\ fwdCalls = fwdMoves
    /\ currentImageIndex = 0

\* C5: a consumed stepBackward() moves the index from 0 to N-1 and from i > 0
\* to i-1, and a consumed forward step followed by a consumed backward step
\* returns to the index before the pair.
C5_BackwardStepWraps ==
    /\ [][\A g \in Gens : (BackwardMove(g) /\ imageNames # << >>) =>
             currentImageIndex' = IF currentImageIndex = 0
                                  THEN Len(imageNames) - 1
                                  ELSE currentImageIndex - 1]_vars
    /\ [](lastMove = "fwdback" => currentImageIndex = moveFrom)

\* C5 witness: the forward step wrapped from N-1 to 0 and the backward step
\* that followed went from 0 back to N-1.
C5_Witness ==
    /\ lastMove = "fwdback"
    /\ Len(imageNames) >= 2
    /\ moveFrom = Len(imageNames) - 1
    /\ currentImageIndex = moveFrom

\* C6: a stepForward()/stepBackward() call that finds paused false returns
\* without changing any field; a call goes on to set its flag only if it found
\* paused true, and a step flag is set by nothing else.
C6_StepDroppedWhileRunning ==
    [][ /\ (hLast' = "stepDropped" /\ hLast # "stepDropped") =>
              /\ ~paused
              /\ hpc' = "idle"
              /\ UNCHANGED <<playback, egl, gl, unservedF, unservedB>>
        /\ (hpc = "idle" /\ hpc' \in {"sf_set", "sb_set"}) => paused
        /\ (shouldStepForward' /\ ~shouldStepForward) => hpc = "sf_set"
        /\ (shouldStepBackward' /\ ~shouldStepBackward) => hpc = "sb_set" ]_vars

\* C6 witness: a step request was dropped while the loop was running and no
\* step flag is set.
C6_Witness ==
    /\ hLast = "stepDropped"
    /\ running /\ ~paused
    /\ ~shouldStepForward /\ ~shouldStepBackward
    /\ ~unservedF /\ ~unservedB
    /\ \E g \in Gens : rpc[g] = "while"

C8_ToggleInvolution ==
    observe = "toggle" =>
        /\ toggleCalls = 1 => paused = ~pausedBefore
        /\ toggleCalls = 2 => paused = pausedBefore

\* C8 witness: two calls completed while the loop runs and a step is pending.
C8_Witness ==
    /\ observe = "toggle"
    /\ toggleCalls = 2 /\ paused = pausedBefore /\ hpc = "idle"
    /\ running /\ shouldStepForward
    /\ \E g \in Gens : rpc[g] \in Bound

\* C9: with N >= 1 images the index is always in 0..N-1.
C9_IndexInRange ==
    imageNames # << >> => currentImageIndex \in 0..(Len(imageNames) - 1)

\* C9 witness: a backward step from 0 has just put the index at N-1.
C9_Witness ==
    /\ Len(imageNames) = MaxImages
    /\ currentImageIndex = Len(imageNames) - 1
    /\ \E g \in Gens : rpc[g] = "clrB"

\* a step of the host thread, that is of one of the public calls
HostStep == hpc' # hpc \/ hLast' # hLast \/ hTmp' # hTmp

\* a step of a render thread at a call of nextFrame() or previousFrame()
FrameStep == \E g \in Gens : rpc[g] \in {"chkF", "chkB", "adv"} /\ rpc'[g] # rpc[g]

\* C10 as stated: the index changes only in a render thread's nextFrame()/
\* previousFrame(), and no step of start(), stop(), togglePause(),
\* stepForward(), stepBackward() or isPaused() changes the index or the textures.
C10_HostLeavesIndexAndTextures ==
    [][ /\ currentImageIndex' # currentImageIndex => FrameStep
        /\ HostStep => UNCHANGED <<currentImageIndex, glObjects, inputImage, outputSize>> ]_vars

\* C10 amended: as C10, except that start() creates the textures in
\* initializeGL() and allocates the output texture at window size; it uploads
\* no image.
C10_HostLeavesIndexAndUploads ==
    [][ /\ currentImageIndex' # currentImageIndex => FrameStep
        /\ HostStep => currentImageIndex' = currentImageIndex
        /\ (HostStep /\ hpc # "ig_build") => UNCHANGED <<glObjects, inputImage, outputSize>>
        /\ (HostStep /\ hpc = "ig_build") => inputImage' \in {0, inputImage} ]_vars

\* C10 witness: the render thread has moved the index and uploaded that image,
\* and a host call has returned since.
C10_Witness ==
    /\ currentImageIndex = 1 /\ inputImage = imageNames[2]
    /\ hLast = "isPausedTrue" /\ hpc = "idle"
    /\ \E g \in Gens : rpc[g] \in Bound

C12_OneMovePerIteration ==
    \A g \in Gens : iterMoves[g] <= 1

\* C13: every iteration of the render loop presents a frame, paused or not: a
\* render thread comes back to the loop test only from the end of an iteration
\* in which it ran the passes and eglSwapBuffers.
C13_EveryIterationPresents ==
    [][\A g \in Gens :
          (rpc[g] \notin {"init", "while"} /\ rpc'[g] = "while") => rpc[g] \in {"adv", "tsleep"}]_vars

\* C14: in the compute renderer a consumed step is eventually followed by a
\* presented frame, with playback still paused and no further call: from a
\* state where a step has selected an image that was not presented yet, a frame
\* is presented, unless the host makes another call or the loop was stopped.
C14_SteppedFrameShown ==
    unshown ~> (~unshown \/ hpc # "idle" \/ ~running)

\* C15: once running is false and as long as no start() sets it again, a render
\* thread inside renderLoop() eventually leaves the loop and ends; when it has
\* ended the context is not current on it, and no step of a render thread
\* destroys a context or a surface.
C15_LoopEndsUnbound ==
    /\ \A g \in Gens : (rpc[g] \in Bound /\ ~running) ~> (rpc[g] = "done" \/ running)
    /\ [](\A g \in Gens : rpc[g] = "done" => current[g] = 0)
    /\ [][(\E g \in Gens : rpc[g] \in Bound /\ rpc'[g] # rpc[g]) =>
             UNCHANGED <<ctxState, surfState, display, context, surface>>]_vars

\* C15 witness: stop() has returned and the render thread, which had bound the
\* context and run cleanupGL(), has ended with nothing current.
C15_Witness ==
    /\ hLast = "stopped" /\ ~running
    /\ \E g \in Gens : rpc[g] = "done" /\ deletes[g] = 1 /\ current[g] = 0

\* C16: teardown is idempotent: a stop() (or the destructor's stop()) called
\* right after a stop() or after a failed start() returns at once without an
\* EGL call, and no eglDestroyContext/eglDestroySurface is ever called on a
\* handle that was destroyed before.
C16_TeardownOnce ==
    /\ [](~doubleDestroy)
    /\ [][(hpc = "idle" /\ hLast \in {"stopped", "startFalse"}) =>
             /\ hpc' # "sp_clear"
             /\ (HostStep /\ hpc' # "st_egl") => UNCHANGED egl]_vars

\* C16 witness: start() failed in initializeGL() and left its destroyed context
\* and surface in the handles; a stop() called after that has returned and the
\* handles are as the failed start() left them.
C16_Witness ==
    /\ hLast = "stopped" /\ hpc = "idle" /\ ~running
    /\ context # EGL_NO_CONTEXT /\ ctxState[context] = "destroyed"
    /\ surface # EGL_NO_SURFACE /\ surfState[surface] = "destroyed"
    /\ ~doubleDestroy

\* C17: the step on which start() returns false leaves running false, no render
\* thread spawned for this call, nothing current on the calling thread, the
\* surface and the context made by this call destroyed (the programs and
\* textures built in that context go with it) and no EGL initialization that
\* the call made.
C17_FailedStartUnwinds ==
    [][(hpc \in {"st_egl", "st_fail"} /\ hLast' = "startFalse") =>
          /\ hpc' = "idle"
          /\ ~running'
          /\ rpc'[starts] = "none"
          /\ current'[0] = 0
          /\ ctxState'[starts] # "live"
          /\ surfState'[starts] # "live"
          /\ eglInitialized' => (eglInitialized /\ hpc = "st_egl")]_vars

\* C17 witness: start() has failed after the compute program was built (the
\* render program did not link); the context that holds it is destroyed and
\* nothing is current.
C17_Witness ==
    /\ hLast = "startFalse" /\ hpc = "idle" /\ ~running
    /\ glObjects.computeShaderProgram = 1 /\ glObjects.renderShaderProgram = 0
    /\ ctxState[starts] = "destroyed" /\ surfState[starts] = "destroyed"
    /\ ~eglInitialized /\ current[0] = 0 /\ rpc[starts] = "none"

\* C18: when a program-building function returns 0 every shader and program
\* made during the call is deleted; when it returns a program, that program
\* is the only object of the call still live.
C18_BuildLeavesNoPartials ==
    bpc = "returned" =>
        /\ glHeap.shaders = {}
        /\ glHeap.attached = {}
        /\ glHeap.flagged = {}
        /\ bret = 0 => glHeap.programs = bloc.before
        /\ bret # 0 => (bret \notin bloc.before /\ glHeap.programs = bloc.before \cup {bret})

\* C18 witness: createRenderShaderProgram() has returned 0 after both shaders
\* compiled, the program was created and the link failed; an earlier call's
\* program is still live.
C18_Witness ==
    /\ bpc = "returned" /\ bret = 0
    /\ bfun = "createRenderShaderProgram"
    /\ bloc.first # 0 /\ bloc.second # 0 /\ bloc.program # 0
    /\ bloc.before # {}

\* C19: during shutdown the programs and textures are deleted exactly once, by
\* the render thread, while the context is current on it and before it
\* unbinds: GL delete calls are made only by a render thread that holds the
\* context and has made none before, and a render thread that unbinds at the
\* end of renderLoop() has made them.
C19_DeletedOnceByRenderThread ==
    [][\A g \in Gens :
          /\ deletes'[g] # deletes[g] =>
                (deletes[g] = 0 /\ current[g] # 0 /\ rpc[g] \in Bound /\ rpc'[g] = "unbind")
          /\ (rpc[g] = "unbind" /\ rpc'[g] = "done") => deletes[g] = 1]_vars

\* the sum of the samples recorded in the current window
RECURSIVE SumUpTo(_)
SumUpTo(x) == IF x = 0 THEN 0 ELSE x * window[x] + SumUpTo(x - 1)
WindowSum == SumUpTo(MaxSample)

C25_GroupsAreCeilings ==
    numGroupsX # 0 =>
        /\ 16 * numGroupsX >= texWidth /\ texWidth > 16 * (numGroupsX - 1)
        /\ 16 * numGroupsY >= texHeight /\ texHeight > 16 * (numGroupsY - 1)
        /\ \A x \in 0..(texWidth - 1) : x \div 16 \in 0..(numGroupsX - 1)
        /\ \A y \in 0..(texHeight - 1) : y \div 16 \in 0..(numGroupsY - 1)
        /\ \E x \in 0..(texWidth - 1) : x \div 16 = numGroupsX - 1
        /\ \E y \in 0..(texHeight - 1) : y \div 16 = numGroupsY - 1

\* C25 witness: a 17 x 16 texture was dispatched as 2 x 1 groups, the second
\* tile column holding the one pixel column left over.
C25_Witness ==
    /\ texWidth = 17 /\ texHeight = 16
    /\ numGroupsX = 2 /\ numGroupsY = 1

\* C26: at most one step direction is pending at any time: a step request
\* accepted while an earlier one is unconsumed replaces it, so the two step
\* flags are never set together.
C26_OneDirectionPending ==
    ~(shouldStepForward /\ shouldStepBackward)

\* C30: at most one render thread is inside renderLoop() at any time: when a
\* later start() spawns its thread, the thread of every earlier start() has
\* ended.
C30_OneRenderThread ==
    Cardinality({g \in Gens : rpc[g] \in Bound \cup {"bind"}}) <= 1

\* C23: with the clock in whole milliseconds, an iteration takes the
\* automatic advance only with paused false and with at least 33 ms between
\* the time it sampled and the timestamp recorded by the previous advance (the
\* construction time before the first), and it records the sampled time as the
\* new timestamp; the sampled times of two consecutive advances are at least
\* 33 ms apart.
C23_AdvancePacedBySample ==
    /\ [][advanceTimes' # advanceTimes =>
             /\ ~paused
             /\ \E g \in Gens :
                  /\ rpc[g] = "adv" /\ rpc'[g] # rpc[g]
                  /\ currentTime[g] - lastFrameTimePoint >= 33
                  /\ lastFrameTimePoint' = currentTime[g]
                  /\ advanceTimes' = Append(advanceTimes, currentTime[g])]_vars
    /\ [](\A i \in DOMAIN advanceTimes :
             advanceTimes[i] - (IF i = 1 THEN 0 ELSE advanceTimes[i - 1]) >= 33)

\* the positions inside the while loop of renderLoop()

\* C21: failures in steady state never stop the loop. running goes from true
\* to false only in stop() or in the failed bind at the top of renderLoop();
\* an updateTexture() call of a loop iteration that rejects the image leaves
\* running alone, the thread goes on inside the loop, and an automatic
\* advance still moves the index to (index + 1) mod N; a step in which
\* checkGLError() reports an error leaves running alone and the thread goes
\* on inside the loop.
C21_FailuresKeepLoopRunning ==
    /\ [][(running /\ ~running') =>
             \/ hpc = "sp_clear" /\ hpc' = "sp_destroy"
             \/ \E g \in Gens : rpc[g] = "bind" /\ rpc'[g] = "done"]_vars
    /\ [][\A g \in Gens : (iterCalls'[g] > iterCalls[g] /\ iterUploads'[g] = iterUploads[g]) =>
             /\ running' = running
             /\ rpc'[g] \in Bound \ {"init", "cleanup", "unbind"}
             /\ rpc[g] \in {"adv", "tadv"} =>
                  currentImageIndex' = (currentImageIndex + 1) % Len(imageNames)]_vars
    /\ [][\A g \in Gens :
             ( /\ glError'
               /\ \/ rpc[g] \in {"draw", "tdraw"} /\ rpc'[g] # rpc[g]
                  \/ iterUploads'[g] > iterUploads[g] ) =>
             /\ running' = running
             /\ rpc'[g] \in Bound \ {"init", "cleanup", "unbind"}]_vars

\* C21 witness: with a GL error reported, the thread of a running renderer is
\* back at the loop test after an automatic advance whose updateTexture()
\* call rejected the image: the index is on the rejected image.
C21_Witness ==
    /\ running /\ glError
    /\ badImage # 0 /\ Len(imageNames) = 2
    /\ imageNames[currentImageIndex + 1] = badImage
    /\ \E g \in Gens :
         /\ rpc[g] = "while"
         /\ iterMoves[g] = 1 /\ iterCalls[g] = 1 /\ iterUploads[g] = 0

\* C22: an image whose channel count is not 1, 3 or 4, or whose width or
\* height is zero, is never uploaded: an updateTexture() call for it leaves
\* the allocation and the contents of every texture unchanged, in the compute
\* renderer and in the texture renderer.
C22_OddImageNeverUploaded ==
    [][\A g \in Gens :
          LET img == imageData[imageNames[currentImageIndex' + 1]]
          IN  ( /\ \/ rpc[g] = "init" /\ rpc'[g] = "while"
                   \/ iterCalls'[g] > iterCalls[g]
                /\ img.found
                /\ img.channels \notin {1, 3, 4} \/ img.width = 0 \/ img.height = 0 )
              => UNCHANGED textures]_vars

\* render thread g moves the index in this step (nextFrame() or
\* previousFrame() on a list that is not empty)
IndexMove(g) == iterMoves'[g] > iterMoves[g]

\* C29 as stated: every move of the index comes with exactly one
\* updateTexture() call, and that call uploads the image and reallocates the
\* textures; for a list of one image the index stays 0.
C29_EveryMoveReuploads ==
    [][\A g \in Gens : IndexMove(g) =>
          /\ iterCalls'[g] = iterCalls[g] + 1
          /\ iterUploads'[g] = iterUploads[g] + 1
          /\ Len(imageNames) = 1 => currentImageIndex' = 0]_vars

\* C29 amended: every move of the index comes with exactly one
\* updateTexture() call and no call of a loop iteration comes without a move;
\* the call uploads the image at the new index and gives the textures its
\* dimensions, also when they are the dimensions the textures already have,
\* if the image is found, passes isValid() and (compute renderer) has 1, 3 or
\* 4 channels, and otherwise leaves every texture as it was; for a list of
\* one image the index stays 0.
C29_MoveCallsUpdateOnce ==
    [][\A g \in Gens :
          /\ iterCalls'[g] > iterCalls[g] => IndexMove(g)
          /\ IndexMove(g) =>
               LET img == imageData[imageNames[currentImageIndex' + 1]]
               IN  /\ iterCalls'[g] = iterCalls[g] + 1
                   /\ IF /\ img.found /\ isValid(img)
                         /\ variant = "compute" => img.channels \in {1, 3, 4}
                      THEN /\ iterUploads'[g] = iterUploads[g] + 1
                           /\ inputDims' = <<img.width, img.height>>
                           /\ variant = "compute" => outputDims' = <<img.width, img.height>>
                      ELSE /\ iterUploads'[g] = iterUploads[g]
                           /\ UNCHANGED textures
                   /\ Len(imageNames) = 1 =>
                        currentImageIndex = 0 /\ currentImageIndex' = 0]_vars

\* C29 witness: on a list of one image a thread has moved the index once in
\* its iteration, from 0 to 0, and the one updateTexture() call uploaded the
\* same image again.
C29_Witness ==
    /\ Len(imageNames) = 1 /\ currentImageIndex = 0
    /\ inputImage = imageNames[1]
    /\ \E g \in Gens :
         /\ rpc[g] = "while"
         /\ iterMoves[g] = 1 /\ iterCalls[g] = 1 /\ iterUploads[g] = 1

\* C24: in the compute renderer, after every successful updateTexture() the
\* input and the output texture both have the width and height of the image
\* at currentImageIndex, and, with every image valid, whenever a render
\* thread is about to dispatch the transform the input texture holds the
\* image at currentImageIndex.
C24_TexturesFollowIndex ==
    /\ [][\A g \in Gens :
             ( /\ variant = "compute"
               /\ \/ rpc[g] = "init" /\ rpc'[g] = "while" /\ Uploads(currentImageIndex)
                  \/ iterUploads'[g] > iterUploads[g] ) =>
             LET img == imageData[imageNames[currentImageIndex' + 1]]
             IN  /\ inputDims' = <<img.width, img.height>>
                 /\ outputDims' = <<img.width, img.height>>]_vars
    /\ []((variant = "compute" /\ \A i \in DOMAIN imageNames : Uploads(i - 1)) =>
             \A g \in Gens : rpc[g] = "draw" =>
                 inputImage = imageNames[currentImageIndex + 1])

\* C27: getImage(name) returns an image if and only if a file with exactly
\* that base name was stored since the last clearImages(), and the image it
\* returns is the one decoded from the file with that base name; for every
\* other name it returns null.
C27_GetImageByExactName ==
    lastCall = "get" =>
        /\ returned # << >> <=> lastArg \in stored
        /\ returned # << >> => returned = lastArg

\* C28: after files with different base names were loaded and all decoded,
\* getImageNames() returns every one of those names exactly once, in an
\* order in which each name is strictly before the names after it.
C28_EveryNameOnce ==
    (lastCall = "names" /\ ~decodeFailed) =>
        /\ {returned[i] : i \in DOMAIN returned} = stored
        /\ Len(returned) = Cardinality(stored)
        /\ \A i, j \in DOMAIN returned :
             i < j => /\ NumericStringCompare(returned[i], returned[j])
                      /\ ~NumericStringCompare(returned[j], returned[i])

\* C31: a stop() that follows a start() that returned true leaves the EGL
\* handles at EGL_NO_DISPLAY, EGL_NO_CONTEXT and EGL_NO_SURFACE, whether it
\* returns from its test of running (the call before it was the start()) or
\* from its teardown, and no context or surface is left live.
C31_StopDestroysEGL ==
    [][( \/ hpc = "idle" /\ hLast \in {"startTrue", "startedAlready"} /\ hLast' = "stopped"
         \/ hpc = "sp_destroy" /\ hpc' = "idle" ) =>
          /\ display' = EGL_NO_DISPLAY
          /\ context' = EGL_NO_CONTEXT
          /\ surface' = EGL_NO_SURFACE
          /\ \A c \in DOMAIN ctxState' : ctxState'[c] # "live"
          /\ \A f \in DOMAIN surfState' : surfState'[f] # "live"]_vars

\* C32: togglePause() is atomic as a whole: whenever no togglePause() call is
\* under way, paused is its initial value false flipped once for each call
\* that has returned, whatever the interleaving of the calling threads.
C32_NoToggleLost ==
    (\A c \in 1..MaxCallers : tpc[c] = "idle") => (paused <=> toggled % 2 = 1)

\* C33: start() called while running is true returns true in the step of its
\* test and changes nothing: it never goes on to create a display, surface
\* or context, spawns no thread, and leaves the EGL and GL objects,
\* currentImageIndex, paused, the step flags and running as they were.
C33_StartWhileRunning ==
    /\ [][(hpc = "idle" /\ running) => hpc' # "st_egl"]_vars
    /\ [][(hLast' = "startedAlready" /\ hLast # "startedAlready") =>
             /\ running
             /\ UNCHANGED <<playback, egl, gl, starts, rpc>>]_vars

\* C33 witness: start() has returned true from its test of running while the
\* render thread of the earlier start() is about to draw.
C33_Witness ==
    /\ hLast = "startedAlready" /\ hpc = "idle" /\ running
    /\ starts = 1
    /\ \E g \in Gens : rpc[g] = "draw"

\* C34: while playback is running no image is skipped: when a render thread
\* takes an automatic advance, the image the previous automatic advance
\* selected has been presented in a frame since (or playback was paused in
\* between), in the compute renderer and in the texture renderer.
C34_AdvancedImageShown ==
    [][\A g \in Gens :
          ( /\ rpc[g] \in {"adv", "tadv"} /\ rpc'[g] # rpc[g]
            /\ currentImageIndex' # currentImageIndex )
          => unpresented = -1]_vars

\* C35: with an empty image list nextFrame(), previousFrame() and
\* updateTexture() change nothing: currentImageIndex stays 0 (no remainder by
\* 0, no index -1 or 1 into imageNames), the steps of a render thread that
\* call them change neither the index nor a texture, the input texture is
\* never defined,
\* and an iteration that finds a step flag set still goes on to clear it.
C35_EmptyListNoOps ==
    /\ [](imageNames = << >> =>
            /\ currentImageIndex = 0
            /\ inputImage = 0 /\ inputDims = <<0, 0>>)
    /\ [][imageNames = << >> =>
            \A g \in Gens :
               /\ (rpc[g] \in {"init", "chkF", "chkB", "adv", "tadv"} /\ rpc'[g] # rpc[g])
                     => UNCHANGED <<currentImageIndex, textures>>
               /\ (rpc[g] = "chkF" /\ rpc'[g] # "chkF" /\ shouldStepForward) => rpc'[g] = "clrF"
               /\ (rpc[g] = "clrF" /\ rpc'[g] # "clrF") => ~shouldStepForward'
               /\ (rpc[g] = "chkB" /\ rpc'[g] # "chkB" /\ shouldStepBackward) => rpc'[g] = "clrB"
               /\ (rpc[g] = "clrB" /\ rpc'[g] # "clrB") => ~shouldStepBackward']_vars

\* previousFrame() has just returned on the empty list for a step requested
\* during a pause: the index is 0, no texture is defined, the render thread is
\* at the statement that clears the flag
C35_Witness ==
    /\ imageNames = << >>
    /\ paused /\ shouldStepBackward
    /\ \E g \in Gens : rpc[g] = "clrB"
    /\ currentImageIndex = 0 /\ inputImage = 0

\* C36: whenever no render thread is inside the statistics block, frameCount is
\* in 0..59 and totalRenderTime is the sum of the samples recorded since the
\* last reset, so it is 0 when frameCount is 0.
C36_StatisticsConsistent ==
    (\A g \in Gens : rpc[g] \notin {"fcSt", "trLd", "trSt", "chk", "rstC", "rstT"}) =>
        /\ frameCount \in 0..(statsResetInterval - 1)
        /\ totalRenderTime = WindowSum
        /\ frameCount = 0 => totalRenderTime = 0

====
